---- MODULE Spec2Model ----
(***************************************************************************)
(* Model of src-tauri/src/ai_bridge.rs: the global cancellation channel    *)
(* (CANCEL_TX, a tokio watch::Sender<u64>), the non-streaming commands     *)
(* analyze_with_* and the SSE streaming command analyze_stream with its    *)
(* two line decoders (stream_openai_compat, stream_claude).                *)
(*                                                                         *)
(* Text is modelled as it is stored: an HTTP body is a sequence of bytes   *)
(* (0..255), a Rust String is a sequence of Unicode code points.           *)
(* Every Tauri command invocation is a call c \in Calls; a call is an      *)
(* async task whose position (pc) is the await it is suspended at.         *)
(***************************************************************************)
EXTENDS Integers, Sequences, FiniteSets, TLC

\* ------------------------------------------------------------------ bounds
\* Number of command invocations that may be in flight together.
NCalls == 2
\* Number of cancel_ai_request() invocations explored.
MaxCancels == 2
\* Longest chunk that ends neither at a line end nor at the end of the body.
MaxChunk == 2

\* Longest prompt and longest context chunk, and the longest list of chunks.
MaxText == 2
MaxFiles == 2

Calls == 1..NCalls

\* ------------------------------------------------------- text primitives
NL == 10
\* chars().take(300) of analyze_with_local's raw-body fallback
RawLimit == 300
REPLACEMENT == 65533

\* "data: "
DataPrefix == <<100,97,116,97,58,32>>
\* "[DONE]"
DoneSentinel == <<91,68,79,78,69,93>>
\* {"choices":[{"delta":{"content":"
OaiJsonPrefix == <<123,34,99,104,111,105,99,101,115,34,58,91,123,34,100,101,108,116,97,34,58,123,34,99,111,110,116,101,110,116,34,58,34>>
\* "}}]}
OaiJsonSuffix == <<34,125,125,93,125>>
\* {"type":"content_block_delta","delta":{"text":"
ClaudeJsonPrefix == <<123,34,116,121,112,101,34,58,34,99,111,110,116,101,110,116,95,98,108,111,99,107,95,100,101,108,116,97,34,44,34,100,101,108,116,97,34,58,123,34,116,101,120,116,34,58,34>>
\* "}}
ClaudeJsonSuffix == <<34,125,125>>
\* {"type":"ping"}
ClaudePingJson == <<123,34,116,121,112,101,34,58,34,112,105,110,103,34,125>>

HasPrefix(s, p) == Len(s) >= Len(p) /\ SubSeq(s, 1, Len(p)) = p
HasSuffix(s, p) == Len(s) >= Len(p) /\ SubSeq(s, Len(s) - Len(p) + 1, Len(s)) = p
DropPrefix(s, p) == SubSeq(s, Len(p) + 1, Len(s))

\* char::is_whitespace, as str::trim uses it (White_Space code points that the
\* modelled bodies can contain).
IsWhitespace(ch) == ch \in {9, 10, 11, 12, 13, 32, 133, 160}

\* str::trim: the text between the first and the last non-whitespace character.
Trim(s) ==
  IF \A i \in 1..Len(s) : IsWhitespace(s[i]) THEN <<>>
  ELSE SubSeq(s,
              CHOOSE i \in 1..Len(s) :
                ~IsWhitespace(s[i]) /\ \A j \in 1..(i - 1) : IsWhitespace(s[j]),
              CHOOSE i \in 1..Len(s) :
                ~IsWhitespace(s[i]) /\ \A j \in (i + 1)..Len(s) : IsWhitespace(s[j]))

IsCont(b) == b \in 128..191

\* String::from_utf8_lossy on one chunk: well-formed sequences of one to three
\* bytes decode to their code point; every maximal ill-formed or truncated
\* prefix becomes one U+FFFD.  (Bodies of the model hold no byte >= 0xF0 and no
\* overlong or surrogate form.)
\* DecodeUnit: the code point and the length of the unit that starts bytes.
DecodeUnit(bytes) ==
  LET b == bytes[1]
      n == Len(bytes)
  IN IF b < 128 THEN [ch |-> b, len |-> 1]
     ELSE IF b \in 194..223
     THEN IF n >= 2 /\ IsCont(bytes[2])
          THEN [ch |-> (b - 192) * 64 + (bytes[2] - 128), len |-> 2]
          ELSE [ch |-> REPLACEMENT, len |-> 1]
     ELSE IF b \in 224..239
     THEN IF n >= 3 /\ IsCont(bytes[2]) /\ IsCont(bytes[3])
          THEN [ch |-> (b - 224) * 4096 + (bytes[2] - 128) * 64 + (bytes[3] - 128), len |-> 3]
          ELSE IF n >= 2 /\ IsCont(bytes[2])
          THEN [ch |-> REPLACEMENT, len |-> 2]
          ELSE [ch |-> REPLACEMENT, len |-> 1]
     ELSE [ch |-> REPLACEMENT, len |-> 1]

\* Byte i is a continuation byte taken up by the lead byte before it, so no
\* unit starts at i (a lead byte is never a continuation byte).
InsideUnit(bytes, i) ==
  /\ i >= 2
  /\ IsCont(bytes[i])
  /\ \/ bytes[i - 1] \in 194..239
     \/ i >= 3 /\ bytes[i - 2] \in 224..239 /\ IsCont(bytes[i - 1])

\* The left-to-right scan, evaluated by halves cut where a unit starts.
RECURSIVE from_utf8_lossy(_)
from_utf8_lossy(bytes) ==
  LET n == Len(bytes)
  IN IF n = 0 THEN <<>>
     ELSE IF n <= 3
     THEN LET u == DecodeUnit(bytes)
          IN <<u.ch>> \o from_utf8_lossy(SubSeq(bytes, u.len + 1, n))
     ELSE LET h == n \div 2
              m == CHOOSE i \in (h + 1)..(h + 3) :
                     /\ ~InsideUnit(bytes, i)
                     /\ \A j \in (h + 1)..(i - 1) : InsideUnit(bytes, j)
          IN from_utf8_lossy(SubSeq(bytes, 1, m - 1)) \o from_utf8_lossy(SubSeq(bytes, m, n))

\* A character that may stand unescaped inside a JSON string.
IsPlainJsonChar(ch) == ch >= 32 /\ ch # 34 /\ ch # 92

\* serde_json::from_str::<Value> on the payload of a data: line, for the
\* documents the modelled servers send: the OpenAI-compatible content delta, the
\* OpenAI role chunk, and Anthropic's content_block_delta, ping and message_stop
\* events.  Any other text of the modelled bodies is not JSON.  The result holds
\* the paths the decoders read: choices[0].delta.content, type and delta.text,
\* each already through as_str().unwrap_or("").
JsonValue(ok, content, type, text) ==
  [ok |-> ok, content |-> content, type |-> type, text |-> text]

from_str(data) ==
  IF /\ HasPrefix(data, OaiJsonPrefix)
     /\ HasSuffix(data, OaiJsonSuffix)
     /\ Len(data) >= Len(OaiJsonPrefix) + Len(OaiJsonSuffix)
     /\ \A i \in (Len(OaiJsonPrefix) + 1)..(Len(data) - Len(OaiJsonSuffix)) : IsPlainJsonChar(data[i])
  THEN JsonValue(TRUE, SubSeq(data, Len(OaiJsonPrefix) + 1, Len(data) - Len(OaiJsonSuffix)), "", <<>>)
  ELSE IF /\ HasPrefix(data, ClaudeJsonPrefix)
          /\ HasSuffix(data, ClaudeJsonSuffix)
          /\ Len(data) >= Len(ClaudeJsonPrefix) + Len(ClaudeJsonSuffix)
          /\ \A i \in (Len(ClaudeJsonPrefix) + 1)..(Len(data) - Len(ClaudeJsonSuffix)) : IsPlainJsonChar(data[i])
  THEN JsonValue(TRUE, <<>>, "content_block_delta",
                 SubSeq(data, Len(ClaudeJsonPrefix) + 1, Len(data) - Len(ClaudeJsonSuffix)))
  ELSE IF data = ClaudePingJson THEN JsonValue(TRUE, <<>>, "ping", <<>>)
  ELSE JsonValue(FALSE, <<>>, "", <<>>)


\* ----------------------------------------------------------- stream events
\* window.emit("ai-stream-token", delta); line is the number of the source line
\* within the body (history only, not part of the payload).
Token(delta, line) == [type |-> "token", delta |-> delta, line |-> line]
\* window.emit("ai-stream-done", {text, model})
Done(text, model) == [type |-> "done", text |-> text, model |-> model]
\* window.emit("ai-stream-done", {cancelled: true})
Cancelled == [type |-> "cancelled"]

\* ------------------------------------------------------------ line decoders
\* The locals of a decoder: buf and full_text, the events emitted so far, and
\* two history fields: lines (lines taken out of buf) and sawDone (the [DONE]
\* sentinel has been decoded).
DecoderInit == [buf |-> <<>>, full_text |-> <<>>, events |-> <<>>, lines |-> 0, sawDone |-> FALSE]

\* Mutant of find: buf.rfind('\n'), the last newline.
rfind(buf) ==
  IF \E i \in 1..Len(buf) : buf[i] = NL
  THEN CHOOSE i \in 1..Len(buf) : buf[i] = NL /\ \A j \in (i + 1)..Len(buf) : buf[j] # NL
  ELSE 0

\* buf.find('\n'): index of the first newline, 0 when there is none.
find(buf) ==
  IF \E i \in 1..Len(buf) : buf[i] = NL
  THEN CHOOSE i \in 1..Len(buf) : buf[i] = NL /\ \A j \in 1..(i - 1) : buf[j] # NL
  ELSE 0

\* Mutant of EmitDelta: the is_empty() test is missing.
EmitDeltaUnchecked(st, delta) ==
  [st EXCEPT !.full_text = @ \o delta,
             !.events = Append(@, Token(delta, st.lines))]

\* if !delta.is_empty() { full_text.push_str(delta); window.emit(token, delta) }
EmitDelta(st, delta) ==
  IF delta # <<>>
  THEN [st EXCEPT !.full_text = @ \o delta,
                  !.events = Append(@, Token(delta, st.lines))]
  ELSE st

\* Mutant of DrainOpenAi: a payload that is no JSON ends the scan of the
\* buffer, as the sentinel does.
RECURSIVE DrainOpenAiStopsAtBadLine(_)
DrainOpenAiStopsAtBadLine(st) ==
  LET pos == find(st.buf)
  IN IF pos = 0 THEN st
     ELSE LET line == Trim(SubSeq(st.buf, 1, pos - 1))
              st1 == [st EXCEPT !.buf = SubSeq(st.buf, pos + 1, Len(st.buf)),
                                !.lines = @ + 1]
          IN IF HasPrefix(line, DataPrefix)
             THEN LET data == DropPrefix(line, DataPrefix)
                  IN IF data = DoneSentinel
                     THEN [st1 EXCEPT !.sawDone = TRUE]
                     ELSE LET j == from_str(data)
                          IN IF j.ok
                             THEN DrainOpenAiStopsAtBadLine(EmitDelta(st1, j.content))
                             ELSE st1
             ELSE DrainOpenAiStopsAtBadLine(st1)

\* The inner `while let Some(pos) = buf.find('\n')` loop of stream_openai_compat.
\* `break` at the sentinel leaves only this inner loop: what follows the
\* sentinel's line stays in buf.
RECURSIVE DrainOpenAi(_)
DrainOpenAi(st) ==
  LET pos == find(st.buf)
  IN IF pos = 0 THEN st
     ELSE LET line == Trim(SubSeq(st.buf, 1, pos - 1))
              st1 == [st EXCEPT !.buf = SubSeq(st.buf, pos + 1, Len(st.buf)),
                                !.lines = @ + 1]
          IN IF HasPrefix(line, DataPrefix)
             THEN LET data == DropPrefix(line, DataPrefix)
                  IN IF data = DoneSentinel
                     THEN [st1 EXCEPT !.sawDone = TRUE]
                     ELSE LET j == from_str(data)
                          IN IF j.ok THEN DrainOpenAi(EmitDelta(st1, j.content))
                             ELSE DrainOpenAi(st1)
             ELSE DrainOpenAi(st1)

\* The inner loop of stream_claude: no sentinel, only content_block_delta
\* events carry text.
RECURSIVE DrainClaude(_)
DrainClaude(st) ==
  LET pos == find(st.buf)
  IN IF pos = 0 THEN st
     ELSE LET line == Trim(SubSeq(st.buf, 1, pos - 1))
              st1 == [st EXCEPT !.buf = SubSeq(st.buf, pos + 1, Len(st.buf)),
                                !.lines = @ + 1]
          IN IF HasPrefix(line, DataPrefix)
             THEN LET j == from_str(DropPrefix(line, DataPrefix))
                  IN IF j.ok /\ j.type = "content_block_delta"
                     THEN DrainClaude(EmitDelta(st1, j.text))
                     ELSE DrainClaude(st1)
             ELSE DrainClaude(st1)

\* buf.push_str(&String::from_utf8_lossy(&chunk))
PushChunk(st, chunk) == [st EXCEPT !.buf = @ \o from_utf8_lossy(chunk)]

\* Mutant of OnChunk: what is left in buf behind the last newline is decoded
\* as a line too, without waiting for its terminator.
OnChunkEager(provider, st, chunk) ==
  LET s1 == IF provider = "claude" THEN DrainClaude(PushChunk(st, chunk))
            ELSE DrainOpenAi(PushChunk(st, chunk))
      s2 == [s1 EXCEPT !.buf = @ \o <<NL>>]
  IN IF s1.buf = <<>> \/ find(s1.buf) # 0 THEN s1
     ELSE IF provider = "claude" THEN DrainClaude(s2) ELSE DrainOpenAi(s2)

\* One iteration of the outer `while let Some(chunk) = stream.next().await`.
\* stream_inner dispatches on the provider: "claude" or the OpenAI-compatible rest.
OnChunk(provider, st, chunk) ==
  IF provider = "claude" THEN DrainClaude(PushChunk(st, chunk))
  ELSE DrainOpenAi(PushChunk(st, chunk))

\* ------------------------------------------------------------------ bodies
OaiLine(content) == DataPrefix \o OaiJsonPrefix \o content \o OaiJsonSuffix \o <<NL>>
ClaudeLine(text) == DataPrefix \o ClaudeJsonPrefix \o text \o ClaudeJsonSuffix \o <<NL>>
DoneLine == DataPrefix \o DoneSentinel \o <<NL>>

\* "He", "llo", "a", "b", and U+00E9 in UTF-8
He == <<72,101>>
Llo == <<108,108,111>>
Ea == <<195,169>>

\* SSE bodies an OpenAI-compatible server sends.
\* Two deltas and the sentinel.
BodyHello == OaiLine(He) \o OaiLine(Llo) \o DoneLine
\* A delta line after the sentinel.
BodyAfterDone == OaiLine(<<97>>) \o DoneLine \o OaiLine(<<98>>)
\* A two-byte code point inside a delta, then a final data: line with no newline.
BodyUtf8 == OaiLine(<<97>> \o Ea) \o DataPrefix \o OaiJsonPrefix \o <<98>> \o OaiJsonSuffix
\* A comment line ended by CR LF, a malformed payload, an empty delta, a delta.
BodyNoise ==
  <<58,32,112,105,110,103,13,NL>> \o DataPrefix \o <<123,98,97,100,NL>>
    \o OaiLine(<<>>) \o OaiLine(<<97>>)

OpenAiBodies == {BodyHello, BodyAfterDone, BodyUtf8, BodyNoise}

\* SSE bodies Anthropic sends.
\* An event: line, a ping event, a delta, a malformed payload (data: x), a delta.
ClaudeBodyHello ==
  <<101,118,101,110,116,58,32,120,NL>> \o DataPrefix \o ClaudePingJson \o <<NL>>
    \o ClaudeLine(He) \o DataPrefix \o <<120,NL>> \o ClaudeLine(Llo)
\* A two-byte code point, an empty delta, a final data: line with no newline.
ClaudeBodyUtf8 ==
  ClaudeLine(Ea) \o ClaudeLine(<<>>) \o DataPrefix \o ClaudeJsonPrefix \o <<98>> \o ClaudeJsonSuffix

ClaudeBodies == {ClaudeBodyHello, ClaudeBodyUtf8}

BodiesFor(provider) == IF provider = "claude" THEN ClaudeBodies ELSE OpenAiBodies


\* ------------------------------------------------------------------- state
VARIABLES
  tx,           \* CANCEL_TX: [value, version] of the watch channel
  cancel_rx,    \* per call: the version its watch::Receiver has seen
  pc,           \* per call: the await the task is suspended at
  req,          \* per call: the command invoked and its request fields
  result,       \* per call: the Result the command returned
  http,         \* per call: HTTP requests sent
  body,         \* per call: the bytes of the 2xx streaming body
  pos,          \* per call: bytes of body already delivered as chunks
  buf,          \* per call: the decoder's line buffer
  full_text,    \* per call: the decoder's accumulator
  events,       \* per call: what window.emit has sent, in order
  lines,        \* history, per call: lines taken out of buf
  arg,          \* the argument of the function under evaluation
  ret,          \* what it returned
  resp,         \* per call: status and body text of the response received
  sawDone,      \* history, per call: the [DONE] sentinel was decoded
  cancelsSince, \* history, per call: cancel_ai_request() calls since it subscribed
  cancelCalls,  \* history: cancel_ai_request() invocations
  CLICK_THROUGH,        \* overlay.rs atomics
  GHOST_MODE,
  PANEL_X_START,
  DIALOG_OPEN,
  WINDOWED_MODE,
  ignore_cursor_events, \* what the window was last told by set_ignore_cursor_events
  command,      \* the overlay command being run: position and argument
  tracker,      \* the cursor-tracker thread: position and locals
  spawned       \* threads made by std::thread::spawn that have not finished: how many of each kind

chanVars == <<tx, cancel_rx, cancelsSince, cancelCalls>>
callVars == <<pc, req, result, http>>
respVars == <<resp>>
fnVars == <<arg, ret>>
overlayVars == <<CLICK_THROUGH, GHOST_MODE, PANEL_X_START, DIALOG_OPEN, WINDOWED_MODE,
                 ignore_cursor_events, command, tracker, spawned>>
streamVars == <<body, pos, buf, full_text, events, lines, sawDone>>
vars == <<tx, cancel_rx, pc, req, result, http, body, pos, buf, full_text, events,
          lines, sawDone, cancelsSince, cancelCalls, resp, arg, ret, overlayVars>>

\* Awaits at which a call is suspended inside its select!.
InFlight == {"select", "sent", "body", "errbody", "streaming"}
Finished == {"ok", "err", "cancelled"}

NoRequest == [cmd |-> "none"]
NoResult == [kind |-> "none"]
\* Ok(..)
OkResult == [kind |-> "ok"]
\* Err("__CANCELLED__")
CancelledResult == [kind |-> "cancelled"]
\* Err("<label> API key required"), before any request
AuthError(label) == [kind |-> "auth", label |-> label]
\* Err("Unknown provider for streaming: <provider>")
UnknownProvider(provider) == [kind |-> "unknown_provider", label |-> provider]
\* Err("Network error: ..") / Err("Stream failed: ..")
NetworkError == [kind |-> "network"]
\* Err("<label> <status>: <message>")
HttpStatusError(label, status, message) ==
  [kind |-> "http_status", label |-> label, status |-> status, message |-> message]
\* Err of resp.json() / serde_json::from_str on the response body
ParseError == [kind |-> "parse"]
\* Err(e.to_string()) of http_client(): the reqwest Client could not be built
ClientError == [kind |-> "client"]
\* Err("Stream read: ..")
StreamReadErr == [kind |-> "stream_read"]

\* ------------------------------------------------- response bodies (text)
\* as_str() of a JSON member: Some(s) or None.
Some(s) == {s}
None == {}
unwrap_or(o, default) == IF o = None THEN default ELSE CHOOSE s \in o : TRUE
or_else(o, other) == IF o = None THEN other ELSE o

\* {"error":{"message":"
ErrPrefix == <<123, 34, 101, 114, 114, 111, 114, 34, 58, 123, 34, 109, 101, 115, 115, 97,
               103, 101, 34, 58, 34>>
\* "}}
ErrSuffix == <<34, 125, 125>>
\* {"message":"
MsgPrefix == <<123, 34, 109, 101, 115, 115, 97, 103, 101, 34, 58, 34>>
\* {"detail":"
DetailPrefix == <<123, 34, 100, 101, 116, 97, 105, 108, 34, 58, 34>>
\* "}
StrSuffix == <<34, 125>>
\* {}
EmptyObject == <<123, 125>>
\* {"model":"m"}
OkDoc == <<123, 34, 109, 111, 100, 101, 108, 34, 58, 34, 109, 34, 125>>
\* "unknown error" (the analyze_with_* cloud commands), "unknown" (streaming)
UnknownErrorText == <<117, 110, 107, 110, 111, 119, 110, 32, 101, 114, 114, 111, 114>>
UnknownText == <<117, 110, 107, 110, 111, 119, 110>>

Inner(text, p, q) == SubSeq(text, Len(p) + 1, Len(text) - Len(q))
IsPlainText(text) == \A i \in 1..Len(text) : IsPlainJsonChar(text[i])

\* serde_json::from_str::<Value> on a response body, for the documents the
\* modelled servers send: ok, and as_str() of j["error"]["message"],
\* j["message"] and j["detail"].
ErrorDoc(ok, error_message, message, detail) ==
  [ok |-> ok, error_message |-> error_message, message |-> message, detail |-> detail]
parse_body(text) ==
  CASE HasPrefix(text, ErrPrefix) /\ HasSuffix(text, ErrSuffix)
         /\ Len(text) >= Len(ErrPrefix) + Len(ErrSuffix)
         /\ IsPlainText(Inner(text, ErrPrefix, ErrSuffix)) ->
           ErrorDoc(TRUE, Some(Inner(text, ErrPrefix, ErrSuffix)), None, None)
    [] HasPrefix(text, MsgPrefix) /\ HasSuffix(text, StrSuffix)
         /\ Len(text) >= Len(MsgPrefix) + Len(StrSuffix)
         /\ IsPlainText(Inner(text, MsgPrefix, StrSuffix)) ->
           ErrorDoc(TRUE, None, Some(Inner(text, MsgPrefix, StrSuffix)), None)
    [] HasPrefix(text, DetailPrefix) /\ HasSuffix(text, StrSuffix)
         /\ Len(text) >= Len(DetailPrefix) + Len(StrSuffix)
         /\ IsPlainText(Inner(text, DetailPrefix, StrSuffix)) ->
           ErrorDoc(TRUE, None, None, Some(Inner(text, DetailPrefix, StrSuffix)))
    [] text \in {EmptyObject, OkDoc} -> ErrorDoc(TRUE, None, None, None)
    [] OTHER -> ErrorDoc(FALSE, None, None, None)

\* body_text.chars().take(n).collect()
take(text, n) == SubSeq(text, 1, IF Len(text) < n THEN Len(text) ELSE n)

\* analyze_with_local's message for a response outside 2xx.
LocalDetail(text) ==
  LET j == parse_body(text)
      found == IF j.ok
               THEN or_else(or_else(j.error_message, j.message), j.detail)
               ELSE None
  IN unwrap_or(found, take(text, RawLimit))

\* The cloud commands' message: json["error"]["message"] or "unknown error".
CloudDetail(text) == unwrap_or(parse_body(text).error_message, UnknownErrorText)

\* The streaming commands' message: err_json is {} when the body is no JSON.
StreamDetail(text) == unwrap_or(parse_body(text).error_message, UnknownText)

\* No response yet.
NoResponse == [status |-> 0, text |-> <<>>]

\* No function is under evaluation.
NoCall == [fn |-> "none"]

\* --------------------------------------------------------------- overlay
\* PANEL_X_START before set_panel_x or set_window_mode stored a position
PanelUnset == 2147483647
\* PANEL_PX
PANEL_PX == 460
\* Kinds of spawned thread: set_ignore_cursor_events(true / false), and the
\* thread of set_dialog_open before and after its set_ignore_cursor_events.
ThreadKinds == {"ignore_true", "ignore_false", "dialog_ignore", "dialog_store"}
NoCommand == [pc |-> "idle", value |-> FALSE]
TrackerAsleep == [pc |-> "sleep", panel_x |-> 0, should_pass |-> FALSE]

\* The statics of overlay.rs as initialised, no command running, the tracker
\* in its sleep.
OverlayInit ==
  /\ CLICK_THROUGH = FALSE
  /\ GHOST_MODE = FALSE
  /\ PANEL_X_START = PanelUnset
  /\ DIALOG_OPEN = FALSE
  /\ WINDOWED_MODE = FALSE
  /\ ignore_cursor_events = FALSE
  /\ command = NoCommand
  /\ tracker = TrackerAsleep
  /\ spawned = [k \in ThreadKinds |-> 0]

\* No command has been invoked yet.
IdleProgram ==
  /\ tx = [value |-> 0, version |-> 0]
  /\ cancel_rx = [c \in Calls |-> 0]
  /\ pc = [c \in Calls |-> "idle"]
  /\ req = [c \in Calls |-> NoRequest]
  /\ result = [c \in Calls |-> NoResult]
  /\ http = [c \in Calls |-> 0]
  /\ body = [c \in Calls |-> <<>>]
  /\ pos = [c \in Calls |-> 0]
  /\ buf = [c \in Calls |-> <<>>]
  /\ full_text = [c \in Calls |-> <<>>]
  /\ events = [c \in Calls |-> <<>>]
  /\ lines = [c \in Calls |-> 0]
  /\ sawDone = [c \in Calls |-> FALSE]
  /\ resp = [c \in Calls |-> NoResponse]
  /\ cancelsSince = [c \in Calls |-> 0]
  /\ cancelCalls = 0
  /\ OverlayInit

Init ==
  /\ IdleProgram
  /\ arg = NoCall
  /\ ret = NoCall

\* -------------------------------------------------------------- build_prompt
\* "\n\n---\n**PROJECT CONTEXT (read-only)**\n"
ContextHeader ==
  <<10, 10, 45, 45, 45, 10, 42, 42, 80, 82, 79, 74, 69, 67, 84, 32, 67, 79, 78, 84, 69,
    88, 84, 32, 40, 114, 101, 97, 100, 45, 111, 110, 108, 121, 41, 42, 42, 10>>

\* for chunk in files { full.push_str(chunk); full.push('\n'); }
RECURSIVE push_chunks(_, _)
push_chunks(full, files) ==
  IF files = <<>> THEN full
  ELSE push_chunks(full \o Head(files) \o <<NL>>, Tail(files))

\* Mutant of build_prompt: the is_empty() test on the list is missing.
build_prompt_always_header(r) ==
  IF r.context_files = None THEN r.prompt
  ELSE push_chunks(r.prompt \o ContextHeader, unwrap_or(r.context_files, <<>>))

\* Mutant of build_prompt: the chunks are put before one another.
RECURSIVE prepend_chunks(_, _, _)
prepend_chunks(head, tail, files) ==
  IF files = <<>> THEN head \o tail
  ELSE prepend_chunks(head, Head(files) \o <<NL>> \o tail, Tail(files))
build_prompt_reversed(r) ==
  IF r.context_files = None \/ r.context_files = Some(<<>>) THEN r.prompt
  ELSE prepend_chunks(r.prompt \o ContextHeader, <<>>, unwrap_or(r.context_files, <<>>))

\* build_prompt: r.prompt and r.context_files (None or Some(list of chunks)).
build_prompt(r) ==
  IF r.context_files = None THEN r.prompt
  ELSE LET files == unwrap_or(r.context_files, <<>>)
       IN IF files = <<>> THEN r.prompt
          ELSE push_chunks(r.prompt \o ContextHeader, files)

\* ------------------------------------------------- the cancellation channel
\* Mutant of receiver_count: only analyze_stream holds a Receiver.
receiver_count_streams == Cardinality({c \in Calls : pc[c] = "streaming"})

\* watch::Sender::receiver_count: one Receiver per call inside its select!
\* (the Receiver of watch::channel(0) is dropped at once by `.0`).
receiver_count == Cardinality({c \in Calls : pc[c] \in InFlight})

\* Mutant of new_cancel_receiver: a clone of a Receiver kept since before the
\* last advance, which has not seen it.
stale_receiver == IF tx.version = 0 THEN tx.version ELSE tx.version - 1

\* cancel_tx().subscribe(): the new Receiver has seen the current version.
new_cancel_receiver == tx.version

\* watch::Receiver::changed() is ready when the channel's version differs from
\* the one the Receiver has seen.
changed(c) == cancel_rx[c] # tx.version

\* Mutant of send: the value is stored without marking the channel changed.
send_silent(value) ==
  IF receiver_count = 0 THEN tx
  ELSE [value |-> value, version |-> tx.version]

\* watch::Sender::send: with no Receiver alive it returns Err and stores
\* nothing; otherwise it stores the value and bumps the version.
send(value) ==
  IF receiver_count = 0 THEN tx
  ELSE [value |-> value, version |-> tx.version + 1]

\* Mutant of cancel_ai_request: the channel carries a flag, not a counter
\* (tx.send(1)).
cancel_ai_request_flag ==
  /\ cancelCalls < MaxCancels
  /\ cancelCalls' = cancelCalls + 1
  /\ tx' = send(1)
  /\ cancelsSince' = [c \in Calls |-> IF pc[c] \in InFlight THEN cancelsSince[c] + 1
                                       ELSE cancelsSince[c]]
  /\ UNCHANGED <<overlayVars, arg, ret, resp, cancel_rx, callVars, streamVars>>

\* #[tauri::command] cancel_ai_request
cancel_ai_request ==
  /\ cancelCalls < MaxCancels
  /\ cancelCalls' = cancelCalls + 1
  /\ tx' = send(tx.value + 1)
  /\ cancelsSince' = [c \in Calls |-> IF pc[c] \in InFlight THEN cancelsSince[c] + 1
                                       ELSE cancelsSince[c]]
  /\ UNCHANGED <<overlayVars, arg, ret, resp, cancel_rx, callVars, streamVars>>

\* Mutant of CancelArm: the other arm's future is not dropped (stream_inner
\* keeps running after Cancelled was emitted).
CancelArmKeepsStream(c) ==
  /\ pc[c] \in InFlight
  /\ changed(c)
  /\ cancel_rx' = [cancel_rx EXCEPT ![c] = tx.version]
  /\ events' = [events EXCEPT ![c] =
                  IF req[c].cmd = "analyze_stream" THEN Append(@, Cancelled) ELSE @]
  /\ result' = [result EXCEPT ![c] = CancelledResult]
  /\ UNCHANGED <<overlayVars, arg, ret, resp, tx, cancelsSince, cancelCalls, pc, req, http, body, pos, buf, full_text,
                 lines, sawDone>>

\* Mutant of CancelArm: changed() consumes one advance, as a queue would.
CancelArmQueued(c) ==
  /\ pc[c] \in InFlight
  /\ changed(c)
  /\ cancel_rx' = [cancel_rx EXCEPT ![c] = @ + 1]
  /\ events' = [events EXCEPT ![c] =
                  IF req[c].cmd = "analyze_stream" THEN Append(@, Cancelled) ELSE @]
  /\ result' = [result EXCEPT ![c] = CancelledResult]
  /\ pc' = [pc EXCEPT ![c] = "cancelled"]
  /\ UNCHANGED <<overlayVars, arg, ret, resp, tx, cancelsSince, cancelCalls, req, http, body, pos, buf, full_text,
                 lines, sawDone>>

\* Mutant of CancelArm: the arm reports the cancellation as a network error.
CancelArmAsNetworkError(c) ==
  /\ pc[c] \in InFlight
  /\ changed(c)
  /\ cancel_rx' = [cancel_rx EXCEPT ![c] = tx.version]
  /\ events' = [events EXCEPT ![c] =
                  IF req[c].cmd = "analyze_stream" THEN Append(@, Cancelled) ELSE @]
  /\ result' = [result EXCEPT ![c] = NetworkError]
  /\ pc' = [pc EXCEPT ![c] = "cancelled"]
  /\ UNCHANGED <<overlayVars, arg, ret, resp, tx, cancelsSince, cancelCalls, req, http, body, pos, buf, full_text,
                 lines, sawDone>>

\* The `_ = cancel_rx.changed() =>` arm of a command's select!: the other arm's
\* future is dropped, analyze_stream also emits the Cancelled event.
CancelArm(c) ==
  /\ pc[c] \in InFlight
  /\ changed(c)
  /\ cancel_rx' = [cancel_rx EXCEPT ![c] = tx.version]
  /\ events' = [events EXCEPT ![c] =
                  IF req[c].cmd = "analyze_stream" THEN Append(@, Cancelled) ELSE @]
  /\ result' = [result EXCEPT ![c] = CancelledResult]
  /\ pc' = [pc EXCEPT ![c] = "cancelled"]
  /\ UNCHANGED <<overlayVars, arg, ret, resp, tx, cancelsSince, cancelCalls, req, http, body, pos, buf, full_text,
                 lines, sawDone>>

\* ------------------------------------------------------------ analyze_stream
StreamProviders == {"openai", "claude", "deepseek", "openrouter", "local", "other"}
ApiKeys == {"", "sk-x"}

\* req.model is None: the provider's default model.
DefaultModel(provider) ==
  CASE provider = "claude" -> "claude-3-5-sonnet-20241022"
    [] provider = "deepseek" -> "deepseek-chat"
    [] provider = "openrouter" -> "openai/gpt-4o"
    [] provider = "local" -> "local-model"
    [] OTHER -> "gpt-4o"

\* The checks stream_openai_compat and stream_claude make before they send;
\* built says whether http_client() returned a Client.  stream_claude looks at
\* the key first, stream_openai_compat builds the Client first.
StreamPreflight(r, built) ==
  CASE r.provider = "claude" ->
         IF r.api_key = "" THEN AuthError("Anthropic")
         ELSE IF ~built THEN ClientError ELSE NoResult
    [] ~built -> ClientError
    [] r.provider = "openai" ->
         IF r.api_key = "" THEN AuthError("OpenAI") ELSE NoResult
    [] r.provider = "deepseek" ->
         IF r.api_key = "" THEN AuthError("DeepSeek") ELSE NoResult
    [] r.provider = "openrouter" ->
         IF r.api_key = "" THEN AuthError("OpenRouter") ELSE NoResult
    [] r.provider = "local" -> NoResult
    [] OTHER -> UnknownProvider(r.provider)

\* analyze_stream up to its select!: the Receiver is made first.
analyze_stream(c, provider, api_key) ==
  /\ pc[c] = "idle"
  /\ req' = [req EXCEPT ![c] = [cmd |-> "analyze_stream", provider |-> provider,
                                api_key |-> api_key]]
  /\ cancel_rx' = [cancel_rx EXCEPT ![c] = new_cancel_receiver]
  /\ pc' = [pc EXCEPT ![c] = "select"]
  /\ UNCHANGED <<overlayVars, arg, ret, resp, tx, cancelsSince, cancelCalls, result, http, streamVars>>

\* First poll of stream_inner: preflight, then builder.send().await.
stream_inner(c, built) ==
  /\ pc[c] = "select"
  /\ req[c].cmd = "analyze_stream"
  /\ LET e == StreamPreflight(req[c], built)
     IN IF e # NoResult
        THEN /\ pc' = [pc EXCEPT ![c] = "err"]
             /\ result' = [result EXCEPT ![c] = e]
             /\ UNCHANGED http
        ELSE /\ pc' = [pc EXCEPT ![c] = "sent"]
             /\ http' = [http EXCEPT ![c] = @ + 1]
             /\ UNCHANGED result
  /\ UNCHANGED <<overlayVars, arg, ret, resp, chanVars, req, streamVars>>

\* builder.send().await fails.
StreamSendFailed(c) ==
  /\ pc[c] = "sent"
  /\ req[c].cmd = "analyze_stream"
  /\ pc' = [pc EXCEPT ![c] = "err"]
  /\ result' = [result EXCEPT ![c] = NetworkError]
  /\ UNCHANGED <<overlayVars, arg, ret, resp, chanVars, req, http, streamVars>>

\* A 2xx response: resp.bytes_stream(), empty buf and full_text.
StreamResponseOk(c, b) ==
  /\ pc[c] = "sent"
  /\ req[c].cmd = "analyze_stream"
  /\ pc' = [pc EXCEPT ![c] = "streaming"]
  /\ body' = [body EXCEPT ![c] = b]
  /\ resp' = [resp EXCEPT ![c].status = 200]
  /\ UNCHANGED <<overlayVars, arg, ret, chanVars, req, result, http, pos, buf, full_text, events, lines, sawDone>>

\* Mutant of StreamResponseError: the status is not looked at and the error
\* body is decoded as a stream.
StreamResponseErrorStreamed(c, status) ==
  /\ pc[c] = "sent"
  /\ req[c].cmd = "analyze_stream"
  /\ pc' = [pc EXCEPT ![c] = "streaming"]
  /\ body' = [body EXCEPT ![c] = OaiLine(<<97>>)]
  /\ resp' = [resp EXCEPT ![c].status = status]
  /\ UNCHANGED <<overlayVars, arg, ret, chanVars, req, result, http, pos, buf, full_text, events, lines, sawDone>>

\* A response outside 2xx: resp.json().await is next.
StreamResponseError(c, status) ==
  /\ pc[c] = "sent"
  /\ req[c].cmd = "analyze_stream"
  /\ pc' = [pc EXCEPT ![c] = "errbody"]
  /\ result' = [result EXCEPT ![c] = [kind |-> "status", status |-> status]]
  /\ resp' = [resp EXCEPT ![c].status = status]
  /\ UNCHANGED <<overlayVars, arg, ret, chanVars, req, http, streamVars>>

\* The error body is in (parsed or replaced by {}): return Err("<label> <status>: ..").
StreamErrorBody(c, text) ==
  /\ pc[c] = "errbody"
  /\ req[c].cmd = "analyze_stream"
  /\ pc' = [pc EXCEPT ![c] = "err"]
  /\ result' = [result EXCEPT ![c] =
       HttpStatusError(IF req[c].provider = "claude" THEN "Claude" ELSE req[c].provider,
                       result[c].status, StreamDetail(text))]
  /\ resp' = [resp EXCEPT ![c].text = text]
  /\ UNCHANGED <<overlayVars, arg, ret, chanVars, req, http, streamVars>>

\* stream.next().await yields the next n bytes of the body as one chunk.
StreamChunk(c, n) ==
  /\ pc[c] = "streaming"
  /\ n \in 1..(Len(body[c]) - pos[c])
  /\ LET st == OnChunk(req[c].provider,
                       [buf |-> buf[c], full_text |-> full_text[c], events |-> events[c],
                        lines |-> lines[c], sawDone |-> sawDone[c]],
                       SubSeq(body[c], pos[c] + 1, pos[c] + n))
     IN /\ buf' = [buf EXCEPT ![c] = st.buf]
        /\ full_text' = [full_text EXCEPT ![c] = st.full_text]
        /\ events' = [events EXCEPT ![c] = st.events]
        /\ lines' = [lines EXCEPT ![c] = st.lines]
        /\ sawDone' = [sawDone EXCEPT ![c] = st.sawDone]
  /\ pos' = [pos EXCEPT ![c] = @ + n]
  /\ UNCHANGED <<overlayVars, arg, ret, resp, chanVars, callVars, body>>

\* Mutant of StreamEof: the function returns Ok(()) without the final emit.
StreamEofSilent(c) ==
  /\ pc[c] = "streaming"
  /\ pos[c] = Len(body[c])
  /\ result' = [result EXCEPT ![c] = OkResult]
  /\ pc' = [pc EXCEPT ![c] = "ok"]
  /\ UNCHANGED <<overlayVars, arg, ret, resp, chanVars, req, http, streamVars>>

\* stream.next().await yields None: emit Done and return Ok(()).
StreamEof(c) ==
  /\ pc[c] = "streaming"
  /\ pos[c] = Len(body[c])
  /\ events' = [events EXCEPT ![c] =
                  Append(@, Done(full_text[c], DefaultModel(req[c].provider)))]
  /\ result' = [result EXCEPT ![c] = OkResult]
  /\ pc' = [pc EXCEPT ![c] = "ok"]
  /\ UNCHANGED <<overlayVars, arg, ret, resp, chanVars, req, http, body, pos, buf, full_text, lines, sawDone>>

\* stream.next().await yields Some(Err(e)): `?` returns Err("Stream read: ..").
StreamReadError(c) ==
  /\ pc[c] = "streaming"
  /\ result' = [result EXCEPT ![c] = StreamReadErr]
  /\ pc' = [pc EXCEPT ![c] = "err"]
  /\ UNCHANGED <<overlayVars, arg, ret, resp, chanVars, req, http, streamVars>>

\* -------------------------------------------------- the analyze_with_* commands
Commands == {"analyze_with_openai", "analyze_with_claude", "analyze_with_deepseek",
             "analyze_with_openrouter", "analyze_with_local"}

\* The provider name each command puts in its error messages.
Label(cmd) ==
  CASE cmd = "analyze_with_openai" -> "OpenAI"
    [] cmd = "analyze_with_claude" -> "Claude"
    [] cmd = "analyze_with_deepseek" -> "DeepSeek"
    [] cmd = "analyze_with_openrouter" -> "OpenRouter"
    [] OTHER -> "Local LLM"

\* What a command checks before new_cancel_receiver(): the four cloud commands
\* want a key, analyze_with_local wants a base URL.
Preflight(r) ==
  CASE r.cmd = "analyze_with_local" ->
         IF r.base_url = "" THEN [kind |-> "url_required"] ELSE NoResult
    [] r.cmd = "analyze_with_claude" ->
         IF r.api_key = "" THEN AuthError("Anthropic") ELSE NoResult
    [] OTHER ->
         IF r.api_key = "" THEN AuthError(Label(r.cmd)) ELSE NoResult

\* A command up to its select!: preflight, then the Receiver is made.
analyze_with(c, cmd, api_key, base_url) ==
  /\ pc[c] = "idle"
  /\ cmd \in Commands
  /\ LET r == [cmd |-> cmd, api_key |-> api_key, base_url |-> base_url]
         e == Preflight(r)
     IN /\ req' = [req EXCEPT ![c] = r]
        /\ IF e # NoResult
           THEN /\ pc' = [pc EXCEPT ![c] = "err"]
                /\ result' = [result EXCEPT ![c] = e]
                /\ UNCHANGED cancel_rx
           ELSE /\ pc' = [pc EXCEPT ![c] = "select"]
                /\ cancel_rx' = [cancel_rx EXCEPT ![c] = new_cancel_receiver]
                /\ UNCHANGED result
  /\ UNCHANGED <<overlayVars, arg, ret, resp, tx, cancelsSince, cancelCalls, http, streamVars>>

\* First poll of the async block: http_client() (built says whether it returned
\* a Client), build the payload, then .send().await.
ExchangeSend(c, built) ==
  /\ pc[c] = "select"
  /\ req[c].cmd \in Commands
  /\ IF built
     THEN /\ pc' = [pc EXCEPT ![c] = "sent"]
          /\ http' = [http EXCEPT ![c] = @ + 1]
          /\ UNCHANGED result
     ELSE /\ pc' = [pc EXCEPT ![c] = "err"]
          /\ result' = [result EXCEPT ![c] = ClientError]
          /\ UNCHANGED http
  /\ UNCHANGED <<overlayVars, arg, ret, resp, chanVars, req, streamVars>>

\* Mutant of ExchangeSendFailed: the failure also cancels the other calls.
ExchangeSendFailedCancelsAll(c) ==
  /\ pc[c] = "sent"
  /\ req[c].cmd \in Commands
  /\ pc' = [pc EXCEPT ![c] = "err"]
  /\ result' = [result EXCEPT ![c] = NetworkError]
  /\ tx' = send(tx.value + 1)
  /\ UNCHANGED <<overlayVars, arg, ret, resp, cancel_rx, cancelsSince, cancelCalls, req, http, streamVars>>

\* Mutant of ExchangeSendFailed: the failed send is tried again.
ExchangeSendRetried(c) ==
  /\ pc[c] = "sent"
  /\ req[c].cmd \in Commands
  /\ pc' = [pc EXCEPT ![c] = "select"]
  /\ UNCHANGED <<overlayVars, arg, ret, resp, chanVars, req, result, http, streamVars>>

\* .send().await fails: Err("Network error: ..").
ExchangeSendFailed(c) ==
  /\ pc[c] = "sent"
  /\ req[c].cmd \in Commands
  /\ pc' = [pc EXCEPT ![c] = "err"]
  /\ result' = [result EXCEPT ![c] = NetworkError]
  /\ UNCHANGED <<overlayVars, arg, ret, resp, chanVars, req, http, streamVars>>

\* The response head is in: resp.status(), then resp.json().await (resp.text()
\* for analyze_with_local).
ExchangeStatus(c, status) ==
  /\ pc[c] = "sent"
  /\ req[c].cmd \in Commands
  /\ pc' = [pc EXCEPT ![c] = "body"]
  /\ result' = [result EXCEPT ![c] = [kind |-> "status", status |-> status]]
  /\ resp' = [resp EXCEPT ![c].status = status]
  /\ UNCHANGED <<overlayVars, arg, ret, chanVars, req, http, streamVars>>

is_success(status) == status \in 200..299

\* The body text is in.  The cloud commands parse it (resp.json()) before they
\* look at the status, analyze_with_local looks at the status first.
ExchangeBody(c, text) ==
  /\ pc[c] = "body"
  /\ req[c].cmd \in Commands
  /\ LET status == result[c].status
         json == parse_body(text).ok
         r == IF req[c].cmd = "analyze_with_local"
              THEN IF ~is_success(status)
                   THEN HttpStatusError(Label(req[c].cmd), status, LocalDetail(text))
                   ELSE IF ~json THEN ParseError
                   ELSE OkResult
              ELSE IF ~json THEN ParseError
                   ELSE IF ~is_success(status)
                   THEN HttpStatusError(Label(req[c].cmd), status, CloudDetail(text))
                   ELSE OkResult
     IN /\ result' = [result EXCEPT ![c] = r]
        /\ pc' = [pc EXCEPT ![c] = IF r = OkResult THEN "ok" ELSE "err"]
  /\ resp' = [resp EXCEPT ![c].text = text]
  /\ UNCHANGED <<overlayVars, arg, ret, chanVars, req, http, streamVars>>

\* The chunk lengths explored for the rest of c's body: every length up to
\* MaxChunk (so every byte position is a chunk boundary in some run), every
\* chunk that ends with a newline or with the lead byte of a code point, and
\* the whole rest.
ChunkLengths(c) ==
  LET rest == Len(body[c]) - pos[c]
  IN {n \in 1..rest : \/ n <= MaxChunk
                       \/ n = rest
                       \/ body[c][pos[c] + n] = NL
                       \/ body[c][pos[c] + n] >= 192}

\* One analyze_stream call against either decoder, every explored way of cutting
\* the body into chunks, and cancel_ai_request at any moment.
NextStream ==
  \/ \E p \in {"openai", "claude"}, k \in ApiKeys : analyze_stream(1, p, k)
  \/ stream_inner(1, TRUE)
  \/ StreamSendFailed(1)
  \/ pc[1] = "sent" /\ \E b \in BodiesFor(req[1].provider) : StreamResponseOk(1, b)
  \/ \E status \in {429} : StreamResponseError(1, status)
  \/ StreamErrorBody(1, EmptyObject)
  \/ \E n \in ChunkLengths(1) : StreamChunk(1, n)
  \/ StreamEof(1)
  \/ StreamReadError(1)
  \/ CancelArm(1)
  \/ cancel_ai_request

SpecStream == Init /\ [][NextStream]_vars

\* Chunks that end with a newline, and the whole rest.
LineChunks(c) ==
  LET rest == Len(body[c]) - pos[c]
  IN {n \in 1..rest : n = rest \/ body[c][pos[c] + n] = NL}

\* The body the streaming server of Next sends: one delta and the sentinel.
ShortBody == OaiLine(<<97>>) \o DoneLine

\* Call slots are taken in index order: invocations are interchangeable, so
\* every run is, up to the numbering of its calls, one of these.
NextSlot(c) == \A d \in 1..(c - 1) : pc[d] # "idle"

\* NCalls command invocations run concurrently, cancel_ai_request at any moment.
Next ==
  \/ \E c \in Calls : NextSlot(c) /\ analyze_with(c, "analyze_with_openai", "sk-x", "")
  \/ \E c \in Calls : NextSlot(c) /\ analyze_with(c, "analyze_with_openai", "", "")
  \/ \E c \in Calls : NextSlot(c) /\ analyze_with(c, "analyze_with_local", "", "http://127.0.0.1:1234")
  \/ \E c \in Calls : NextSlot(c) /\ analyze_stream(c, "openai", "sk-x")
  \/ \E c \in Calls : ExchangeSend(c, TRUE)
  \/ \E c \in Calls : ExchangeSendFailed(c)
  \/ \E c \in Calls, status \in {200, 429} : ExchangeStatus(c, status)
  \/ \E c \in Calls, text \in {OkDoc, <<>>} : ExchangeBody(c, text)
  \/ \E c \in Calls : stream_inner(c, TRUE)
  \/ \E c \in Calls : StreamSendFailed(c)
  \/ \E c \in Calls : StreamResponseOk(c, ShortBody)
  \/ \E c \in Calls : StreamResponseError(c, 429)
  \/ \E c \in Calls : StreamErrorBody(c, EmptyObject)
  \/ \E c \in Calls : \E n \in LineChunks(c) : StreamChunk(c, n)
  \/ \E c \in Calls : StreamEof(c)
  \/ \E c \in Calls : StreamReadError(c)
  \/ \E c \in Calls : CancelArm(c)
  \/ cancel_ai_request

Spec == Init /\ [][Next]_vars

\* ------------------------------------------- one call, every command and body
\* "rate limited", "busy", "down", "Bad Gateway"
RateLimited == <<114, 97, 116, 101, 32, 108, 105, 109, 105, 116, 101, 100>>
Busy == <<98, 117, 115, 121>>
Down == <<100, 111, 119, 110>>
BadGateway == <<66, 97, 100, 32, 71, 97, 116, 101, 119, 97, 121>>
\* A body that is no JSON and is one character longer than the fallback keeps.
LongText == [i \in 1..(RawLimit + 1) |-> 120]

\* The response bodies of the modelled servers: the three error shapes, an
\* object with none of the members, plain text (short and long), and a
\* success document.
BodyTexts ==
  {ErrPrefix \o RateLimited \o ErrSuffix, MsgPrefix \o Busy \o StrSuffix,
   DetailPrefix \o Down \o StrSuffix, EmptyObject, BadGateway, LongText, OkDoc}

Statuses == {200, 429}
BaseUrls == {"", "http://127.0.0.1:1234"}

\* One invocation of any command with any provider, key and response.
NextCall ==
  \/ \E cmd \in Commands \ {"analyze_with_local"}, k \in ApiKeys : analyze_with(1, cmd, k, "")
  \/ \E k \in ApiKeys, u \in BaseUrls : analyze_with(1, "analyze_with_local", k, u)
  \/ \E p \in StreamProviders, k \in ApiKeys : analyze_stream(1, p, k)
  \/ \E built \in BOOLEAN : ExchangeSend(1, built)
  \/ ExchangeSendFailed(1)
  \/ \E status \in Statuses : ExchangeStatus(1, status)
  \/ \E text \in BodyTexts : ExchangeBody(1, text)
  \/ \E built \in BOOLEAN : stream_inner(1, built)
  \/ StreamSendFailed(1)
  \/ StreamResponseOk(1, ShortBody)
  \/ \E status \in Statuses \ {200} : StreamResponseError(1, status)
  \/ \E text \in BodyTexts : StreamErrorBody(1, text)
  \/ \E n \in LineChunks(1) : StreamChunk(1, n)
  \/ StreamEof(1)
  \/ StreamReadError(1)
  \/ CancelArm(1)
  \/ cancel_ai_request

SpecCall == Init /\ [][NextCall]_vars

\* ------------------------------------------------ build_prompt on its inputs
\* Texts over a newline and a letter, up to MaxText characters.
Texts == UNION {[1..n -> {NL, 97}] : n \in 0..MaxText}
FileLists == UNION {[1..n -> Texts] : n \in 0..MaxFiles}
PromptRequests ==
  [prompt : Texts, context_files : {None} \cup {Some(files) : files \in FileLists}]

InitPrompt ==
  /\ IdleProgram
  /\ arg \in [fn : {"build_prompt"}, req : PromptRequests]
  /\ ret = NoCall

\* let user_text = build_prompt(&req);
BuildPrompt ==
  /\ arg.fn = "build_prompt"
  /\ ret = NoCall
  /\ ret' = [fn |-> "build_prompt", value |-> build_prompt(arg.req)]
  /\ UNCHANGED <<overlayVars, arg, resp, chanVars, callVars, streamVars>>

NextPrompt == BuildPrompt

SpecPrompt == InitPrompt /\ [][NextPrompt]_vars


\* ---------------------------- the standalone build_prompt on the same inputs
\* "\n\n---\n**PROJECT CONTEXT**\n"
StandaloneContextHeader ==
  <<10, 10, 45, 45, 45, 10, 42, 42, 80, 82, 79, 74, 69, 67, 84, 32, 67, 79, 78, 84, 69,
    88, 84, 42, 42, 10>>

\* tests-standalone build_prompt: r.prompt and r.context_files.
standalone_build_prompt(r) ==
  IF r.context_files = None THEN r.prompt
  ELSE LET files == unwrap_or(r.context_files, <<>>)
       IN IF files = <<>> THEN r.prompt
          ELSE push_chunks(r.prompt \o StandaloneContextHeader, files)

InitBothPrompts ==
  /\ IdleProgram
  /\ arg \in [fn : {"build_prompt", "standalone_build_prompt"}, req : PromptRequests]
  /\ ret = NoCall

\* let result = build_prompt(&req);  (the crate of tests-standalone)
StandaloneBuildPrompt ==
  /\ arg.fn = "standalone_build_prompt"
  /\ ret = NoCall
  /\ ret' = [fn |-> "standalone_build_prompt", value |-> standalone_build_prompt(arg.req)]
  /\ UNCHANGED <<overlayVars, arg, resp, chanVars, callVars, streamVars>>

NextBothPrompts == BuildPrompt \/ StandaloneBuildPrompt

SpecBothPrompts == InitBothPrompts /\ [][NextBothPrompts]_vars


\* --------------------------------------------- validate_key on its inputs
\* " API key is required"
KeyRequiredSuffix ==
  <<32, 65, 80, 73, 32, 107, 101, 121, 32, 105, 115, 32, 114, 101, 113, 117, 105, 114,
    101, 100>>

\* Ok(()) and Err(message) of a Result<(), String>
Ok == [ok |-> TRUE]
Err(message) == [ok |-> FALSE, err |-> message]

\* Mutant of validate_key: a key of whitespace only is refused as well.
validate_key_trimmed(key, provider) ==
  IF Trim(key) = <<>> THEN Err(provider \o KeyRequiredSuffix) ELSE Ok

\* validate_key: Err(format!("{} API key is required", provider)) for an
\* empty key, Ok(()) otherwise.
validate_key(key, provider) ==
  IF key = <<>> THEN Err(provider \o KeyRequiredSuffix) ELSE Ok

\* "OpenAI", "Claude", "DeepSeek", "OpenRouter"
LabelOpenAI == <<79, 112, 101, 110, 65, 73>>
LabelClaude == <<67, 108, 97, 117, 100, 101>>
LabelDeepSeek == <<68, 101, 101, 112, 83, 101, 101, 107>>
LabelOpenRouter == <<79, 112, 101, 110, 82, 111, 117, 116, 101, 114>>
ProviderLabels == {LabelOpenAI, LabelClaude, LabelDeepSeek, LabelOpenRouter, <<>>}

\* Keys over a space and two letters, up to MaxText characters.
KeyTexts == UNION {[1..n -> {32, 97, 115}] : n \in 0..MaxText}

InitKey ==
  /\ IdleProgram
  /\ arg \in [fn : {"validate_key"}, key : KeyTexts, provider : ProviderLabels]
  /\ ret = NoCall

\* validate_key(key, provider)
ValidateKey ==
  /\ arg.fn = "validate_key"
  /\ ret = NoCall
  /\ ret' = [fn |-> "validate_key", value |-> validate_key(arg.key, arg.provider)]
  /\ UNCHANGED <<overlayVars, arg, resp, chanVars, callVars, streamVars>>

NextKey == ValidateKey

SpecKey == InitKey /\ [][NextKey]_vars

\* ------------------------------------------ extract_content on its inputs
\* "\n\n*— модель вернула только рассуждения (reasoning). Увеличьте лимит
\* токенов для полного ответа. —*", as characters
ReasoningOnlyNote ==
  <<10, 10, 42, 8212, 32, 1084, 1086, 1076, 1077, 1083, 1100, 32, 1074, 1077, 1088,
    1085, 1091, 1083, 1072, 32, 1090, 1086, 1083, 1100, 1082, 1086, 32, 1088, 1072,
    1089, 1089, 1091, 1078, 1076, 1077, 1085, 1080, 1103, 32, 40, 114, 101, 97, 115,
    111, 110, 105, 110, 103, 41, 46, 32, 1059, 1074, 1077, 1083, 1080, 1095, 1100, 1090,
    1077, 32, 1083, 1080, 1084, 1080, 1090, 32, 1090, 1086, 1082, 1077, 1085, 1086,
    1074, 32, 1076, 1083, 1103, 32, 1087, 1086, 1083, 1085, 1086, 1075, 1086, 32, 1086,
    1090, 1074, 1077, 1090, 1072, 46, 32, 8212, 42>>

\* Mutant of extract_content: neither field is trimmed.
extract_content_untrimmed(msg) ==
  LET content == unwrap_or(msg.content, <<>>)
      reasoning == unwrap_or(msg.reasoning, <<>>)
  IN IF content # <<>> THEN content
     ELSE IF reasoning # <<>> THEN reasoning \o ReasoningOnlyNote
     ELSE <<>>

\* extract_content: msg is json["choices"][0]["message"], its "content" and
\* "reasoning" fields being Some(text) when they are JSON strings (as_str()).
extract_content(msg) ==
  LET content == Trim(unwrap_or(msg.content, <<>>))
      reasoning == Trim(unwrap_or(msg.reasoning, <<>>))
  IN IF content # <<>> THEN content
     ELSE IF reasoning # <<>> THEN reasoning \o ReasoningOnlyNote
     ELSE <<>>

\* analyze_with_claude's text: json["content"][0]["text"].as_str().unwrap_or("")
claude_text(block) == unwrap_or(block.text, <<>>)

\* Field values over a space and a letter, up to MaxText characters; None is a
\* field that is missing or not a string.
FieldTexts == UNION {[1..n -> {32, 97}] : n \in 0..MaxText}
Fields == {None} \cup {Some(t) : t \in FieldTexts}

InitExtract ==
  /\ IdleProgram
  /\ \/ arg \in [fn : {"extract_content"}, msg : [content : Fields, reasoning : Fields]]
     \/ arg \in [fn : {"claude_text"}, msg : [text : Fields, reasoning : Fields]]
  /\ ret = NoCall

\* text: extract_content(&json)
ExtractContent ==
  /\ arg.fn = "extract_content"
  /\ ret = NoCall
  /\ ret' = [fn |-> "extract_content", value |-> extract_content(arg.msg)]
  /\ UNCHANGED <<overlayVars, arg, resp, chanVars, callVars, streamVars>>

\* text: json["content"][0]["text"].as_str().unwrap_or("").to_string()
ClaudeText ==
  /\ arg.fn = "claude_text"
  /\ ret = NoCall
  /\ ret' = [fn |-> "claude_text", value |-> claude_text(arg.msg)]
  /\ UNCHANGED <<overlayVars, arg, resp, chanVars, callVars, streamVars>>

NextExtract == ExtractContent \/ ClaudeText

SpecExtract == InitExtract /\ [][NextExtract]_vars

\* ------------------------------------------------------ request payloads
\* "data:image/png;base64,"
DataUrlPrefix ==
  <<100, 97, 116, 97, 58, 105, 109, 97, 103, 101, 47, 112, 110, 103, 59, 98, 97, 115,
    101, 54, 52, 44>>

\* A JSON string as message content, and a JSON array of content parts.
StringContent(text) == [form |-> "string", text |-> text]
ArrayContent(parts) == [form |-> "array", parts |-> parts]
\* { "type": "text", "text": .. }
TextPart(text) == [type |-> "text", text |-> text]
\* { "type": "image_url", "image_url": { "url": "data:image/png;base64,..", ("detail": ..) } }
ImageUrlPart(b64, detail) ==
  [type |-> "image_url", url |-> DataUrlPrefix \o b64, detail |-> detail]
\* { "type": "image", "source": { "type": "base64", "media_type": "image/png", "data": b64 } }
ImagePart(b64) == [type |-> "image", media_type |-> "image/png", data |-> b64]
Message(role, content) == [role |-> role, content |-> content]

\* if let Some(sys) = &req.system_prompt { if !sys.trim().is_empty() {
\*   messages.push(json!({ "role": "system", "content": sys })) } }
system_message(r) ==
  IF r.system_prompt # None /\ Trim(unwrap_or(r.system_prompt, <<>>)) # <<>>
  THEN <<Message("system", StringContent(unwrap_or(r.system_prompt, <<>>)))>>
  ELSE <<>>

\* Mutant of prepend_system: whatever system prompt is present is put in
\* front, as it is.
prepend_system_untrimmed(r, prompt_text) ==
  IF r.system_prompt # None
  THEN unwrap_or(r.system_prompt, <<>>) \o <<NL, NL>> \o prompt_text
  ELSE prompt_text

\* The local clients' user text: "{sys.trim()}\n\n{prompt}" for a system
\* prompt that is not blank, the prompt otherwise.
prepend_system(r, prompt_text) ==
  IF r.system_prompt # None /\ Trim(unwrap_or(r.system_prompt, <<>>)) # <<>>
  THEN Trim(unwrap_or(r.system_prompt, <<>>)) \o <<NL, NL>> \o prompt_text
  ELSE prompt_text

\* if let Some(b64) = &req.image_base64 { [text, image_url] } else { text }
user_msg(r, text) ==
  IF r.image_base64 # None
  THEN Message("user", ArrayContent(<<TextPart(text),
                                      ImageUrlPart(unwrap_or(r.image_base64, <<>>), None)>>))
  ELSE Message("user", StringContent(text))

\* Claude's top-level "system": req.system_prompt.as_deref().unwrap_or("").trim(),
\* set when it is not empty.
claude_system(r) ==
  LET sys == Trim(unwrap_or(r.system_prompt, <<>>))
  IN IF sys # <<>> THEN Some(sys) ELSE None

\* Claude's content: the image block, if any, then the text block.
claude_content(r) ==
  ArrayContent((IF r.image_base64 # None
                THEN <<ImagePart(unwrap_or(r.image_base64, <<>>))>> ELSE <<>>)
               \o <<TextPart(build_prompt(r))>>)

\* A request body: the fields of the json!({..}) object; system = None and
\* stream = FALSE stand for an absent field.
Payload(model, messages, max_tokens, system, stream) ==
  [model |-> model, messages |-> messages, max_tokens |-> max_tokens,
   system |-> system, stream |-> stream]

analyze_with_openai_payload(r) ==
  Payload(unwrap_or(r.model, "gpt-4o"),
          system_message(r)
            \o <<Message("user",
                   ArrayContent(<<TextPart(build_prompt(r))>>
                     \o (IF r.image_base64 # None
                         THEN <<ImageUrlPart(unwrap_or(r.image_base64, <<>>), Some("high"))>>
                         ELSE <<>>)))>>,
          unwrap_or(r.max_tokens, 2048), None, FALSE)

analyze_with_claude_payload(r) ==
  Payload(unwrap_or(r.model, DefaultModel("claude")),
          <<Message("user", claude_content(r))>>,
          unwrap_or(r.max_tokens, 2048), claude_system(r), FALSE)

analyze_with_deepseek_payload(r) ==
  Payload(unwrap_or(r.model, DefaultModel("deepseek")),
          system_message(r) \o <<Message("user", StringContent(build_prompt(r)))>>,
          unwrap_or(r.max_tokens, 2048), None, FALSE)

analyze_with_openrouter_payload(r) ==
  Payload(unwrap_or(r.model, DefaultModel("openrouter")),
          system_message(r) \o <<user_msg(r, build_prompt(r))>>,
          unwrap_or(r.max_tokens, 2048), None, FALSE)

analyze_with_local_payload(r) ==
  Payload(unwrap_or(r.model, DefaultModel("local")),
          <<user_msg(r, prepend_system(r, build_prompt(r)))>>,
          unwrap_or(r.max_tokens, 4096), None, FALSE)

\* Mutant of stream_openai_compat_payload: the non-streaming default.
stream_openai_compat_payload_2048(provider, r) ==
  Payload(unwrap_or(r.model, DefaultModel(provider)),
          (IF provider # "local" THEN system_message(r) ELSE <<>>)
            \o <<user_msg(r, IF provider = "local"
                             THEN prepend_system(r, build_prompt(r))
                             ELSE build_prompt(r))>>,
          unwrap_or(r.max_tokens, IF provider = "local" THEN 4096 ELSE 2048), None, TRUE)

stream_openai_compat_payload(provider, r) ==
  Payload(unwrap_or(r.model, DefaultModel(provider)),
          (IF provider # "local" THEN system_message(r) ELSE <<>>)
            \o <<user_msg(r, IF provider = "local"
                             THEN prepend_system(r, build_prompt(r))
                             ELSE build_prompt(r))>>,
          unwrap_or(r.max_tokens, 4096), None, TRUE)

stream_claude_payload(r) ==
  Payload(unwrap_or(r.model, DefaultModel("claude")),
          <<Message("user", claude_content(r))>>,
          unwrap_or(r.max_tokens, 4096), claude_system(r), TRUE)

\* The provider a non-streaming command talks to.
ProviderOf(cmd) ==
  CASE cmd = "analyze_with_openai" -> "openai"
    [] cmd = "analyze_with_claude" -> "claude"
    [] cmd = "analyze_with_deepseek" -> "deepseek"
    [] cmd = "analyze_with_openrouter" -> "openrouter"
    [] OTHER -> "local"

\* Request fields the payload depends on.
SystemPrompts == {None, Some(<<>>), Some(<<32>>), Some(<<97>>), Some(<<32, 97, 32>>)}
Images == {None, Some(<<>>), Some(<<97>>)}
MaxTokens == {None, Some(0), Some(1000)}
Models == {None, Some("custom")}
PayloadRequests ==
  [prompt : Texts, context_files : {None, Some(<< <<97>> >>)},
   system_prompt : SystemPrompts, image_base64 : Images,
   max_tokens : MaxTokens, model : Models]
PayloadCalls ==
  {[fn |-> cmd, provider |-> ProviderOf(cmd)] : cmd \in Commands}
    \cup {[fn |-> "analyze_stream", provider |-> p] : p \in StreamProviders \ {"other"}}

InitPayload ==
  /\ IdleProgram
  /\ \E call \in PayloadCalls, r \in PayloadRequests :
       arg = [fn |-> call.fn, provider |-> call.provider, req |-> r]
  /\ ret = NoCall

\* The body a client builds, from the request it was given.
BuildPayload(fn, value) ==
  /\ arg.fn = fn
  /\ ret = NoCall
  /\ ret' = [fn |-> fn, value |-> value]
  /\ UNCHANGED <<overlayVars, arg, resp, chanVars, callVars, streamVars>>

OpenAiPayload == BuildPayload("analyze_with_openai", analyze_with_openai_payload(arg.req))
ClaudePayload == BuildPayload("analyze_with_claude", analyze_with_claude_payload(arg.req))
DeepSeekPayload ==
  BuildPayload("analyze_with_deepseek", analyze_with_deepseek_payload(arg.req))
OpenRouterPayload ==
  BuildPayload("analyze_with_openrouter", analyze_with_openrouter_payload(arg.req))
LocalPayload == BuildPayload("analyze_with_local", analyze_with_local_payload(arg.req))
StreamOpenAiCompatPayload ==
  /\ arg.provider # "claude"
  /\ BuildPayload("analyze_stream", stream_openai_compat_payload(arg.provider, arg.req))
StreamClaudePayload ==
  /\ arg.provider = "claude"
  /\ BuildPayload("analyze_stream", stream_claude_payload(arg.req))

NextPayload ==
  \/ OpenAiPayload
  \/ ClaudePayload
  \/ DeepSeekPayload
  \/ OpenRouterPayload
  \/ LocalPayload
  \/ StreamOpenAiCompatPayload
  \/ StreamClaudePayload

SpecPayload == InitPayload /\ [][NextPayload]_vars

\* ------------------------------------------------- patch_file on its inputs
\* str::matches(pat).count(): the matches found scanning from the left, each
\* search resuming after the end of the previous match; the empty pattern
\* matches at every character boundary.
RECURSIVE matches_count(_, _)
matches_count(text, pat) ==
  IF pat = <<>> THEN Len(text) + 1
  ELSE IF Len(text) < Len(pat) THEN 0
  ELSE IF HasPrefix(text, pat)
       THEN 1 + matches_count(SubSeq(text, Len(pat) + 1, Len(text)), pat)
  ELSE matches_count(Tail(text), pat)

\* str::replacen(pat, to, 1): the first match is replaced.
replacen(text, pat, to) ==
  LET starts == {i \in 1..(Len(text) - Len(pat) + 1) :
                   SubSeq(text, i, i + Len(pat) - 1) = pat}
  IN IF starts = {} THEN text
     ELSE LET i == CHOOSE j \in starts : \A k \in starts : j <= k
          IN SubSeq(text, 1, i - 1) \o to \o SubSeq(text, i + Len(pat), Len(text))

\* patch_file: file is None when the path does not exist and Some(content)
\* otherwise; the result and the file as the call leaves it.
patch_file(file, old_text, new_text) ==
  IF file = None THEN [value |-> Err("File not found"), file |-> file]
  ELSE LET original == unwrap_or(file, <<>>)
           count == matches_count(original, old_text)
       IN IF count = 0 THEN [value |-> Err("old_text not found"), file |-> file]
          ELSE IF count > 1 THEN [value |-> Err("old_text matches several times"),
                                  file |-> file]
          ELSE [value |-> Ok, file |-> Some(replacen(original, old_text, new_text))]

\* File contents of up to MaxText + 1 characters and old_text of up to MaxText
\* characters, over two letters.
PatchContents == UNION {[1..n -> {97, 98}] : n \in 0..(MaxText + 1)}
PatchOldTexts == UNION {[1..n -> {97, 98}] : n \in 0..MaxText}
PatchNewTexts == {<<>>, <<98>>, <<97, 97>>}

InitPatch ==
  /\ IdleProgram
  /\ arg \in [fn : {"patch_file"},
              file : {None} \cup {Some(t) : t \in PatchContents},
              old_text : PatchOldTexts, new_text : PatchNewTexts]
  /\ ret = NoCall

\* patch_file(file_path, old_text, new_text)
PatchFile ==
  /\ arg.fn = "patch_file"
  /\ ret = NoCall
  /\ LET out == patch_file(arg.file, arg.old_text, arg.new_text)
     IN ret' = [fn |-> "patch_file", value |-> out.value, file |-> out.file]
  /\ UNCHANGED <<overlayVars, arg, resp, chanVars, callVars, streamVars>>

NextPatch == PatchFile

SpecPatch == InitPatch /\ [][NextPatch]_vars

\* --------------------------------------------- index_directory on its input
MAX_FILE_SIZE_BYTES == 100000
MAX_FILE_CONTENT_CHARS == 8000
MAX_TOTAL_FILES == 250
\* Groups of entries placed in a directory tree besides the filler files.
MaxEntries == 2

\* "rs", "go", "cpp", "c", "h", .. "md", "mdx", "txt"
ALLOWED_EXTENSIONS ==
  {<<114, 115>>, <<103, 111>>, <<99, 112, 112>>, <<99>>, <<104>>, <<104, 112, 112>>,
   <<99, 115>>, <<106, 97, 118, 97>>, <<115, 119, 105, 102, 116>>, <<107, 116>>,
   <<116, 115>>, <<116, 115, 120>>, <<106, 115>>, <<106, 115, 120>>, <<112, 121>>,
   <<114, 98>>, <<112, 104, 112>>, <<104, 116, 109, 108>>, <<99, 115, 115>>, <<115,
   99, 115, 115>>, <<115, 97, 115, 115>>, <<118, 117, 101>>, <<115, 118, 101, 108,
   116, 101>>, <<116, 111, 109, 108>>, <<121, 97, 109, 108>>, <<121, 109, 108>>,
   <<106, 115, 111, 110>>, <<101, 110, 118>>, <<115, 104>>, <<98, 97, 115, 104>>,
   <<122, 115, 104>>, <<109, 100>>, <<109, 100, 120>>, <<116, 120, 116>>}

\* ".git", "node_modules", "target", .. ".pytest_cache"
IGNORED_DIRS ==
  {<<46, 103, 105, 116>>, <<110, 111, 100, 101, 95, 109, 111, 100, 117, 108, 101,
   115>>, <<116, 97, 114, 103, 101, 116>>, <<46, 110, 101, 120, 116>>, <<100, 105,
   115, 116>>, <<98, 117, 105, 108, 100>>, <<95, 95, 112, 121, 99, 97, 99, 104, 101,
   95, 95>>, <<46, 118, 101, 110, 118>>, <<118, 101, 110, 118>>, <<46, 105, 100, 101,
   97>>, <<46, 118, 115, 99, 111, 100, 101>>, <<46, 99, 97, 114, 103, 111>>, <<111,
   117, 116>>, <<46, 116, 117, 114, 98, 111>>, <<99, 111, 118, 101, 114, 97, 103,
   101>>, <<46, 112, 121, 116, 101, 115, 116, 95, 99, 97, 99, 104, 101>>}

\* OsStr::to_str: Some(name) for a name that is valid UTF-8.
to_str(name) ==
  LET lossy == from_utf8_lossy(name)
  IN IF \E i \in 1..Len(lossy) : lossy[i] = REPLACEMENT THEN None ELSE Some(name)

\* is_ignored_dir, on the file name of the path.
is_ignored_dir(name) ==
  IF to_str(name) = None THEN FALSE
  ELSE name \in IGNORED_DIRS \/ (HasPrefix(name, <<46>>) /\ Len(name) > 1)

to_ascii_lowercase(s) == [i \in 1..Len(s) |-> IF s[i] \in 65..90 THEN s[i] + 32 ELSE s[i]]

\* Path::extension of a file name: what follows the last '.', unless the name
\* has no '.' or only a leading one.
extension(name) ==
  LET dots == {i \in 1..Len(name) : name[i] = 46}
  IN IF dots = {} THEN None
     ELSE LET last == CHOOSE i \in dots : \A j \in dots : j <= i
          IN IF last = 1 THEN None ELSE Some(SubSeq(name, last + 1, Len(name)))

\* path.extension().and_then(|e| e.to_str()).unwrap_or("").to_ascii_lowercase()
ext_of(name) ==
  LET e == extension(name)
  IN IF e = None THEN <<>>
     ELSE to_ascii_lowercase(unwrap_or(to_str(unwrap_or(e, <<>>)), <<>>))

\* A directory entry as WalkDir meets it: its path below the root (the root's
\* own path is empty), its file type, metadata().len(), whether metadata()
\* and read_to_string() succeed, and whether byte MAX_FILE_CONTENT_CHARS of
\* the content is a character boundary.
DirEntry(path, type, size, meta_ok, utf8, boundary) ==
  [path |-> path, type |-> type, size |-> size, meta_ok |-> meta_ok, utf8 |-> utf8,
   boundary |-> boundary]
file_name(e) == e.path[Len(e.path)]
depth(e) == Len(e.path)

\* The walk so far: files pushed, files counted as skipped, the directory
\* filter_entry refused last (its subtree is not walked), a panic.
WalkInit == [files |-> <<>>, skipped |-> 0, pruned |-> None, panicked |-> FALSE]

IndexedFile(e) ==
  [path |-> e.path, size_bytes |-> e.size, extension |-> ext_of(file_name(e)),
   truncated |-> e.size > MAX_FILE_CONTENT_CHARS]

\* One entry of the walk: filter_entry, then the body of the 'walk loop.
visit(st, e) ==
  IF st.pruned # None /\ HasPrefix(e.path, unwrap_or(st.pruned, <<>>))
  THEN st
  ELSE IF depth(e) # 0 /\ is_ignored_dir(file_name(e))
  THEN [st EXCEPT !.pruned = IF e.type = "dir" THEN Some(e.path) ELSE None]
  ELSE IF e.type # "file" THEN [st EXCEPT !.pruned = None]
  ELSE IF Len(st.files) >= MAX_TOTAL_FILES
  THEN [st EXCEPT !.pruned = None, !.skipped = @ + 1]
  ELSE IF ext_of(file_name(e)) \notin ALLOWED_EXTENSIONS
  THEN [st EXCEPT !.pruned = None, !.skipped = @ + 1]
  ELSE IF ~e.meta_ok THEN [st EXCEPT !.pruned = None, !.skipped = @ + 1]
  ELSE IF e.size > MAX_FILE_SIZE_BYTES THEN [st EXCEPT !.pruned = None, !.skipped = @ + 1]
  ELSE IF ~e.utf8 THEN [st EXCEPT !.pruned = None, !.skipped = @ + 1]
  ELSE IF e.size > MAX_FILE_CONTENT_CHARS /\ ~e.boundary
  THEN [st EXCEPT !.pruned = None, !.panicked = TRUE]
  ELSE [st EXCEPT !.pruned = None, !.files = Append(@, IndexedFile(e))]

\* The loop over entries[lo..hi], in order; a panic ends it.
RECURSIVE walk(_, _, _, _)
walk(st, entries, lo, hi) ==
  IF lo > hi \/ st.panicked THEN st
  ELSE IF lo = hi THEN visit(st, entries[lo])
  ELSE LET mid == (lo + hi) \div 2
           half == walk(st, entries, lo, mid)
       IN walk(half, entries, mid + 1, hi)

\* index_directory: root is the entry of dir_path itself, entries what lies
\* below it, in the order WalkDir yields it.
index_directory(root, entries) ==
  IF root.type # "dir" THEN Err("not a valid directory")
  ELSE LET st == walk(WalkInit, <<root>> \o entries, 1, Len(entries) + 1)
       IN IF st.panicked THEN [ok |-> FALSE, panic |-> TRUE]
          ELSE [ok |-> TRUE, files |-> st.files, total_files |-> Len(st.files),
                skipped_files |-> st.skipped]

\* Plain source files "f001.rs", "f002.rs", .. directly below the root.
Filler(k) ==
  DirEntry(<< <<102, 48 + (k \div 100), 48 + ((k \div 10) % 10), 48 + (k % 10),
                46, 114, 115>> >>, "file", 1, TRUE, TRUE, TRUE)
Fillers(n) == [k \in 1..n |-> Filler(k)]

\* A file directly below the root.
TopFile(name, size, meta_ok, utf8, boundary) ==
  <<DirEntry(<<name>>, "file", size, meta_ok, utf8, boundary)>>
\* A directory below the root holding "lib.js".
DirWithFile(name) ==
  <<DirEntry(<<name>>, "dir", 0, TRUE, TRUE, TRUE),
    DirEntry(<<name, <<108, 105, 98, 46, 106, 115>> >>, "file", 1, TRUE, TRUE, TRUE)>>

EntryGroups ==
  {\* "a.rs", "A.RS", "image.png"
   TopFile(<<97, 46, 114, 115>>, 1, TRUE, TRUE, TRUE),
   TopFile(<<65, 46, 82, 83>>, 1, TRUE, TRUE, TRUE),
   TopFile(<<105, 109, 97, 103, 101, 46, 112, 110, 103>>, 1, TRUE, TRUE, TRUE),
   \* "big.rs" of MAX_FILE_SIZE_BYTES + 1 bytes, "e.rs" of MAX_FILE_SIZE_BYTES
   TopFile(<<98, 105, 103, 46, 114, 115>>, MAX_FILE_SIZE_BYTES + 1, TRUE, TRUE, TRUE),
   TopFile(<<101, 46, 114, 115>>, MAX_FILE_SIZE_BYTES, TRUE, TRUE, TRUE),
   \* "m.rs" whose metadata() fails, "u.rs" that is not UTF-8
   TopFile(<<109, 46, 114, 115>>, 1, FALSE, TRUE, TRUE),
   TopFile(<<117, 46, 114, 115>>, 1, TRUE, FALSE, TRUE),
   \* "l.rs" with a character across byte MAX_FILE_CONTENT_CHARS
   TopFile(<<108, 46, 114, 115>>, MAX_FILE_CONTENT_CHARS + 1, TRUE, TRUE, FALSE),
   \* the files ".x.json" and "out"
   TopFile(<<46, 120, 46, 106, 115, 111, 110>>, 1, TRUE, TRUE, TRUE),
   TopFile(<<111, 117, 116>>, 1, TRUE, TRUE, TRUE),
   \* "s.rs", a symbolic link
   <<DirEntry(<< <<115, 46, 114, 115>> >>, "symlink", 1, TRUE, TRUE, TRUE)>>,
   \* the directories "src", "node_modules", ".hidden" and ".\xFF"
   DirWithFile(<<115, 114, 99>>),
   DirWithFile(<<110, 111, 100, 101, 95, 109, 111, 100, 117, 108, 101, 115>>),
   DirWithFile(<<46, 104, 105, 100, 100, 101, 110>>),
   DirWithFile(<<46, 255>>)}

RECURSIVE Flatten(_)
Flatten(groups) == IF groups = <<>> THEN <<>> ELSE Head(groups) \o Flatten(Tail(groups))

\* Up to MaxEntries different groups.
GroupLists ==
  {g \in UNION {[1..n -> EntryGroups] : n \in 0..MaxEntries} :
     \A i, j \in 1..Len(g) : i # j => g[i] # g[j]}
\* A tree of groups, or MAX_TOTAL_FILES - 1 or MAX_TOTAL_FILES filler files and
\* then one group.
Trees ==
  {Flatten(g) : g \in GroupLists}
    \cup {Fillers(n) \o group : n \in {MAX_TOTAL_FILES - 1, MAX_TOTAL_FILES},
                                 group \in EntryGroups}
\* dir_path: a directory, a hidden directory, a regular file.
Roots ==
  {DirEntry(<<>>, "dir", 0, TRUE, TRUE, TRUE) @@ [name |-> <<112, 114, 111, 106>>],
   DirEntry(<<>>, "dir", 0, TRUE, TRUE, TRUE) @@ [name |-> <<46, 112, 114, 111, 106>>],
   DirEntry(<<>>, "file", 1, TRUE, TRUE, TRUE) @@ [name |-> <<112, 114, 111, 106>>]}

InitIndex ==
  /\ IdleProgram
  /\ arg \in [fn : {"index_directory"}, root : Roots, entries : Trees]
  /\ ret = NoCall

\* index_directory(dir_path)
IndexDirectory ==
  /\ arg.fn = "index_directory"
  /\ ret = NoCall
  /\ ret' = [fn |-> "index_directory", value |-> index_directory(arg.root, arg.entries)]
  /\ UNCHANGED <<overlayVars, arg, resp, chanVars, callVars, streamVars>>

NextIndex == IndexDirectory

SpecIndex == InitIndex /\ [][NextIndex]_vars

\* ------------------------------------------------------ overlay commands
\* Spawned threads that may be pending at once.
MaxPending == 2
Pending == spawned["ignore_true"] + spawned["ignore_false"] + spawned["dialog_ignore"]
             + spawned["dialog_store"]
Spawn(kind) == spawned' = [spawned EXCEPT ![kind] = @ + 1]
IgnoreKind(value) == IF value THEN "ignore_true" ELSE "ignore_false"
\* Everything but the overlay.
bridgeVars == <<resp, ret, arg, chanVars, callVars, streamVars>>
\* A monitor width, and where the cursor can be.
ScreenWidths == {1920}
CursorXs == {100, 1800}

\* toggle_ghost_mode, line 56: let next = !GHOST_MODE.load(..)
toggle_ghost_mode ==
  /\ command.pc = "idle"
  /\ Pending < MaxPending
  /\ command' = [pc |-> "store_ghost", value |-> ~GHOST_MODE]
  /\ UNCHANGED <<CLICK_THROUGH, GHOST_MODE, PANEL_X_START, DIALOG_OPEN, WINDOWED_MODE,
                 ignore_cursor_events, tracker, spawned, bridgeVars>>

\* set_ghost_mode(value) is called.
set_ghost_mode(value) ==
  /\ command.pc = "idle"
  /\ Pending < MaxPending
  /\ command' = [pc |-> "store_ghost", value |-> value]
  /\ UNCHANGED <<CLICK_THROUGH, GHOST_MODE, PANEL_X_START, DIALOG_OPEN, WINDOWED_MODE,
                 ignore_cursor_events, tracker, spawned, bridgeVars>>

\* GHOST_MODE.store(next) of toggle_ghost_mode, GHOST_MODE.store(value) of
\* set_ghost_mode.
StoreGhostMode ==
  /\ command.pc = "store_ghost"
  /\ GHOST_MODE' = command.value
  /\ command' = [command EXCEPT !.pc = "store_click_through"]
  /\ UNCHANGED <<CLICK_THROUGH, PANEL_X_START, DIALOG_OPEN, WINDOWED_MODE,
                 ignore_cursor_events, tracker, spawned, bridgeVars>>

\* set_click_through(enabled) is called.
set_click_through(enabled) ==
  /\ command.pc = "idle"
  /\ Pending < MaxPending
  /\ command' = [pc |-> "store_click_through", value |-> enabled]
  /\ UNCHANGED <<CLICK_THROUGH, GHOST_MODE, PANEL_X_START, DIALOG_OPEN, WINDOWED_MODE,
                 ignore_cursor_events, tracker, spawned, bridgeVars>>

\* CLICK_THROUGH.store(..) of toggle_ghost_mode, set_ghost_mode and
\* set_click_through.
StoreClickThrough ==
  /\ command.pc = "store_click_through"
  /\ CLICK_THROUGH' = command.value
  /\ command' = [command EXCEPT !.pc = "emit"]
  /\ UNCHANGED <<GHOST_MODE, PANEL_X_START, DIALOG_OPEN, WINDOWED_MODE,
                 ignore_cursor_events, tracker, spawned, bridgeVars>>

\* window.emit(..)?, then the thread that calls set_ignore_cursor_events is
\* spawned and the command returns; an emit error returns before the spawn.
EmitAndSpawn(emitted) ==
  /\ command.pc = "emit"
  /\ IF emitted THEN Spawn(IgnoreKind(command.value)) ELSE UNCHANGED spawned
  /\ command' = NoCommand
  /\ UNCHANGED <<CLICK_THROUGH, GHOST_MODE, PANEL_X_START, DIALOG_OPEN, WINDOWED_MODE,
                 ignore_cursor_events, tracker, bridgeVars>>

\* set_panel_x(x)
set_panel_x(x) ==
  /\ command.pc = "idle"
  /\ PANEL_X_START' = x
  /\ UNCHANGED <<CLICK_THROUGH, GHOST_MODE, DIALOG_OPEN, WINDOWED_MODE,
                 ignore_cursor_events, command, tracker, spawned, bridgeVars>>

\* set_dialog_open(open): DIALOG_OPEN.store(open)
set_dialog_open(open) ==
  /\ command.pc = "idle"
  /\ Pending < MaxPending
  /\ DIALOG_OPEN' = open
  /\ command' = IF open THEN [pc |-> "dialog_window", value |-> open] ELSE NoCommand
  /\ UNCHANGED <<CLICK_THROUGH, GHOST_MODE, PANEL_X_START, WINDOWED_MODE,
                 ignore_cursor_events, tracker, spawned, bridgeVars>>

\* set_dialog_open(true), lines 120-145: the window calls, each returning
\* early on an error, then the thread is spawned.
DialogSpawn(window_ok) ==
  /\ command.pc = "dialog_window"
  /\ IF window_ok THEN Spawn("dialog_ignore") ELSE UNCHANGED spawned
  /\ command' = NoCommand
  /\ UNCHANGED <<CLICK_THROUGH, GHOST_MODE, PANEL_X_START, DIALOG_OPEN, WINDOWED_MODE,
                 ignore_cursor_events, tracker, bridgeVars>>

\* set_window_mode(windowed, on_top), lines 183-190: current_monitor()?, then
\* WINDOWED_MODE.store(windowed).
set_window_mode(windowed, monitor_ok, sw) ==
  /\ command.pc = "idle"
  /\ Pending < MaxPending
  /\ IF monitor_ok
     THEN /\ WINDOWED_MODE' = windowed
          /\ command' = [pc |-> "mode_window", value |-> windowed, sw |-> sw]
     ELSE UNCHANGED <<WINDOWED_MODE, command>>
  /\ UNCHANGED <<CLICK_THROUGH, GHOST_MODE, PANEL_X_START, DIALOG_OPEN,
                 ignore_cursor_events, tracker, spawned, bridgeVars>>

\* set_size(..)?, set_position(..)?, then PANEL_X_START.store(..): 0 in
\* windowed mode (206), the monitor width less PANEL_PX otherwise (230-231).
ModeStorePanel(window_ok) ==
  /\ command.pc = "mode_window"
  /\ IF ~window_ok THEN command' = NoCommand /\ UNCHANGED PANEL_X_START
     ELSE IF command.value
     THEN PANEL_X_START' = 0 /\ command' = [command EXCEPT !.pc = "mode_click_through"]
     ELSE PANEL_X_START' = command.sw - PANEL_PX /\ command' = NoCommand
  /\ UNCHANGED <<CLICK_THROUGH, GHOST_MODE, DIALOG_OPEN, WINDOWED_MODE,
                 ignore_cursor_events, tracker, spawned, bridgeVars>>

\* line 207: CLICK_THROUGH.store(false)
ModeStoreClickThrough ==
  /\ command.pc = "mode_click_through"
  /\ CLICK_THROUGH' = FALSE
  /\ command' = [command EXCEPT !.pc = "mode_ghost"]
  /\ UNCHANGED <<GHOST_MODE, PANEL_X_START, DIALOG_OPEN, WINDOWED_MODE,
                 ignore_cursor_events, tracker, spawned, bridgeVars>>

\* line 208: GHOST_MODE.store(false)
ModeStoreGhost ==
  /\ command.pc = "mode_ghost"
  /\ GHOST_MODE' = FALSE
  /\ command' = [command EXCEPT !.pc = "mode_spawn"]
  /\ UNCHANGED <<CLICK_THROUGH, PANEL_X_START, DIALOG_OPEN, WINDOWED_MODE,
                 ignore_cursor_events, tracker, spawned, bridgeVars>>

\* lines 211-217: set_always_on_top(aot)?, then the thread is spawned.
ModeSpawn(window_ok) ==
  /\ command.pc = "mode_spawn"
  /\ IF window_ok THEN Spawn("ignore_false") ELSE UNCHANGED spawned
  /\ command' = NoCommand
  /\ UNCHANGED <<CLICK_THROUGH, GHOST_MODE, PANEL_X_START, DIALOG_OPEN, WINDOWED_MODE,
                 ignore_cursor_events, tracker, bridgeVars>>

\* ------------------------------------------------------- spawned threads
\* win.set_ignore_cursor_events(value) in a spawned thread; an Err is logged.
RunSetIgnore(value, ok) ==
  /\ spawned[IgnoreKind(value)] > 0
  /\ spawned' = [spawned EXCEPT ![IgnoreKind(value)] = @ - 1]
  /\ ignore_cursor_events' = IF ok THEN value ELSE ignore_cursor_events
  /\ UNCHANGED <<CLICK_THROUGH, GHOST_MODE, PANEL_X_START, DIALOG_OPEN, WINDOWED_MODE,
                 command, tracker, bridgeVars>>

\* line 143: let _ = win.set_ignore_cursor_events(false);
DialogThreadIgnore(ok) ==
  /\ spawned["dialog_ignore"] > 0
  /\ spawned' = [spawned EXCEPT !["dialog_ignore"] = @ - 1, !["dialog_store"] = @ + 1]
  /\ ignore_cursor_events' = IF ok THEN FALSE ELSE ignore_cursor_events
  /\ UNCHANGED <<CLICK_THROUGH, GHOST_MODE, PANEL_X_START, DIALOG_OPEN, WINDOWED_MODE,
                 command, tracker, bridgeVars>>

\* line 144: CLICK_THROUGH.store(false, Ordering::SeqCst);
DialogThreadStore ==
  /\ spawned["dialog_store"] > 0
  /\ spawned' = [spawned EXCEPT !["dialog_store"] = @ - 1]
  /\ CLICK_THROUGH' = FALSE
  /\ UNCHANGED <<GHOST_MODE, PANEL_X_START, DIALOG_OPEN, WINDOWED_MODE,
                 ignore_cursor_events, command, tracker, bridgeVars>>

\* ---------------------------------------------------- the cursor tracker
TrackerStep(next) ==
  /\ tracker' = next
  /\ UNCHANGED <<CLICK_THROUGH, GHOST_MODE, PANEL_X_START, DIALOG_OPEN, WINDOWED_MODE,
                 ignore_cursor_events, command, spawned, bridgeVars>>

\* line 267: if GHOST_MODE.load(..) { continue; }
TrackerLoadGhost ==
  /\ tracker.pc = "sleep"
  /\ TrackerStep(IF GHOST_MODE THEN TrackerAsleep ELSE [tracker EXCEPT !.pc = "windowed"])

\* line 272: if WINDOWED_MODE.load(..) { continue; }
TrackerLoadWindowed ==
  /\ tracker.pc = "windowed"
  /\ TrackerStep(IF WINDOWED_MODE THEN TrackerAsleep ELSE [tracker EXCEPT !.pc = "dialog"])

\* line 277: if DIALOG_OPEN.load(..) { continue; }
TrackerLoadDialog ==
  /\ tracker.pc = "dialog"
  /\ TrackerStep(IF DIALOG_OPEN THEN TrackerAsleep ELSE [tracker EXCEPT !.pc = "panel"])

\* lines 281-284: let panel_x = PANEL_X_START.load(..)
TrackerLoadPanel ==
  /\ tracker.pc = "panel"
  /\ TrackerStep(IF PANEL_X_START = PanelUnset THEN TrackerAsleep
                 ELSE [tracker EXCEPT !.pc = "cursor", !.panel_x = PANEL_X_START])

\* lines 286-291: get_cursor_x(), None or Some(x); should_pass = cursor_x < panel_x
TrackerCursor(cursor_x) ==
  /\ tracker.pc = "cursor"
  /\ TrackerStep(IF cursor_x = None THEN TrackerAsleep
                 ELSE [tracker EXCEPT !.pc = "is_pass",
                                      !.should_pass = unwrap_or(cursor_x, 0) < tracker.panel_x])

\* lines 292-294: let is_pass = CLICK_THROUGH.load(..); if should_pass != is_pass
TrackerLoadClickThrough ==
  /\ tracker.pc = "is_pass"
  /\ TrackerStep(IF tracker.should_pass # CLICK_THROUGH
                 THEN [tracker EXCEPT !.pc = "set_ignore"] ELSE TrackerAsleep)

\* line 295: if window.set_ignore_cursor_events(should_pass).is_ok()
TrackerSetIgnore(ok) ==
  /\ tracker.pc = "set_ignore"
  /\ ignore_cursor_events' = IF ok THEN tracker.should_pass ELSE ignore_cursor_events
  /\ tracker' = IF ok THEN [tracker EXCEPT !.pc = "store"] ELSE TrackerAsleep
  /\ UNCHANGED <<CLICK_THROUGH, GHOST_MODE, PANEL_X_START, DIALOG_OPEN, WINDOWED_MODE,
                 command, spawned, bridgeVars>>

\* line 296: CLICK_THROUGH.store(should_pass, ..)
TrackerStore ==
  /\ tracker.pc = "store"
  /\ CLICK_THROUGH' = tracker.should_pass
  /\ tracker' = TrackerAsleep
  /\ UNCHANGED <<GHOST_MODE, PANEL_X_START, DIALOG_OPEN, WINDOWED_MODE,
                 ignore_cursor_events, command, spawned, bridgeVars>>

NextOverlay ==
  \/ toggle_ghost_mode
  \/ \E value \in BOOLEAN : set_ghost_mode(value)
  \/ StoreGhostMode
  \/ \E enabled \in BOOLEAN : set_click_through(enabled)
  \/ StoreClickThrough
  \/ \E emitted \in BOOLEAN : EmitAndSpawn(emitted)
  \/ \E sw \in ScreenWidths : set_panel_x(sw - PANEL_PX)
  \/ \E open \in BOOLEAN : set_dialog_open(open)
  \/ \E window_ok \in BOOLEAN : DialogSpawn(window_ok)
  \/ \E windowed \in BOOLEAN, monitor_ok \in BOOLEAN, sw \in ScreenWidths :
       set_window_mode(windowed, monitor_ok, sw)
  \/ \E window_ok \in BOOLEAN : ModeStorePanel(window_ok)
  \/ ModeStoreClickThrough
  \/ ModeStoreGhost
  \/ \E window_ok \in BOOLEAN : ModeSpawn(window_ok)
  \/ \E value \in BOOLEAN, ok \in BOOLEAN : RunSetIgnore(value, ok)
  \/ \E ok \in BOOLEAN : DialogThreadIgnore(ok)
  \/ DialogThreadStore
  \/ TrackerLoadGhost
  \/ TrackerLoadWindowed
  \/ TrackerLoadDialog
  \/ TrackerLoadPanel
  \/ \E cursor_x \in {None} \cup {Some(x) : x \in CursorXs} : TrackerCursor(cursor_x)
  \/ TrackerLoadClickThrough
  \/ \E ok \in BOOLEAN : TrackerSetIgnore(ok)
  \/ TrackerStore

SpecOverlay == Init /\ [][NextOverlay]_vars

\* ===================================================================
\* Properties
\* ===================================================================
\* A 2xx response was received for c (every modelled body is non-empty).
Streamed(c) == req[c].cmd = "analyze_stream" /\ body[c] # <<>>

IsTerminal(e) == e.type \in {"done", "cancelled"}
TerminalCount(ev) == Cardinality({i \in 1..Len(ev) : IsTerminal(ev[i])})
TokenIndices(ev) == {i \in 1..Len(ev) : ev[i].type = "token"}
TokenCount(ev) == Cardinality(TokenIndices(ev))

\* The deltas of the Token events of ev, concatenated in emission order.
RECURSIVE TokenText(_)
TokenText(ev) ==
  IF ev = <<>> THEN <<>>
  ELSE TokenText(SubSeq(ev, 1, Len(ev) - 1))
         \o (IF ev[Len(ev)].type = "token" THEN ev[Len(ev)].delta ELSE <<>>)

\* The body decoded as a whole, and its newline-terminated lines, trimmed.
NewlineAt(text) == {i \in 1..Len(text) : text[i] = NL}
SourceLineCount(text) == Cardinality(NewlineAt(text))
SourceLine(text, k) ==
  LET nl == NewlineAt(text)
      end == CHOOSE i \in nl : Cardinality({j \in nl : j <= i}) = k
      before == {j \in nl : j < end}
      start == IF before = {} THEN 1 ELSE (CHOOSE j \in before : \A m \in before : m <= j) + 1
  IN Trim(SubSeq(text, start, end - 1))

IsSentinelLine(line) == line = DataPrefix \o DoneSentinel

\* The line carries a non-empty delta for the provider's decoder.
IsDeltaLine(provider, line) ==
  /\ HasPrefix(line, DataPrefix)
  /\ ~(provider # "claude" /\ IsSentinelLine(line))
  /\ LET j == from_str(DropPrefix(line, DataPrefix))
     IN /\ j.ok
        /\ IF provider = "claude" THEN j.type = "content_block_delta" /\ j.text # <<>>
           ELSE j.content # <<>>

\* What the decoder emits for body b delivered as one single chunk, then EOF.
SingleChunkEvents(provider, b) ==
  LET st == OnChunk(provider, DecoderInit, b)
  IN Append(st.events, Done(st.full_text, DefaultModel(provider)))

\* C1 (as claimed): every streaming call that got a 2xx response and has ended
\* emitted exactly one terminal event (Done or Cancelled), however it ended.
C1_ExactlyOneTerminalEvent ==
  \A c \in Calls :
    (Streamed(c) /\ pc[c] \in Finished) => TerminalCount(events[c]) = 1

\* C1 (amended): a streaming call that got a 2xx response emits exactly one
\* terminal event when it ends by body EOF (Done, last) or by cancellation
\* (Cancelled, last), and none when a read error ends the body: the call then
\* returns Err("Stream read: ..") instead.
C1_TerminalEventByOutcome ==
  \A c \in Calls :
    Streamed(c) =>
      LET ev == events[c]
      IN /\ pc[c] = "ok" =>
              TerminalCount(ev) = 1 /\ ev[Len(ev)].type = "done"
         /\ pc[c] = "cancelled" =>
              TerminalCount(ev) = 1 /\ ev[Len(ev)].type = "cancelled"
         /\ pc[c] = "err" =>
              TerminalCount(ev) = 0 /\ result[c] = StreamReadErr
         /\ pc[c] = "streaming" => TerminalCount(ev) = 0

\* C1 witness: a stream that emitted a Token and ended at EOF although a
\* cancel had been issued meanwhile.
C1_Witness ==
  \E c \in Calls :
    /\ Streamed(c) /\ pc[c] = "ok"
    /\ TokenCount(events[c]) >= 1
    /\ cancelsSince[c] > 0

\* C2 (as claimed): in an OpenAI-compatible stream no Token comes from a line
\* that follows a `data: [DONE]` line of the body, in whatever chunk it arrives;
\* so the Done text holds no delta from after the sentinel.
C2_NoTokenAfterSentinel ==
  \A c \in Calls :
    (Streamed(c) /\ req[c].provider # "claude") =>
      \A i \in TokenIndices(events[c]) :
        \A k \in 1..(events[c][i].line - 1) :
          ~IsSentinelLine(SourceLine(from_utf8_lossy(body[c]), k))

\* C3 (as claimed): whatever the partition of the body into chunks, a stream
\* that ran to EOF emitted the events the single-chunk run emits.
C3_ChunkingIndependent ==
  \A c \in Calls :
    (Streamed(c) /\ pc[c] = "ok") =>
      events[c] = SingleChunkEvents(req[c].provider, body[c])

\* C4: within one streaming call nothing is emitted after a terminal event:
\* only the last event of a call is Done or Cancelled, and the call has then
\* returned.
C4_NothingAfterTerminal ==
  \A c \in Calls :
    /\ \A i \in 1..(Len(events[c]) - 1) : events[c][i].type = "token"
    /\ TerminalCount(events[c]) > 0 => pc[c] \in {"ok", "cancelled"}

\* C4 witness: a stream cancelled after a Token, with bytes of its body not
\* yet delivered and at least one cancel issued while it ran.
C4_Witness ==
  \E c \in Calls :
    /\ pc[c] = "cancelled"
    /\ Len(events[c]) >= 2
    /\ pos[c] < Len(body[c])

\* C5: the accumulator is the concatenation of the Token deltas emitted so far,
\* the text of Done is that concatenation, and no Token has an empty delta.
C5_AccumulatorIsTokenText ==
  \A c \in Calls :
    /\ full_text[c] = TokenText(events[c])
    /\ \A i \in TokenIndices(events[c]) : events[c][i].delta # <<>>
    /\ \A i \in 1..Len(events[c]) :
         events[c][i].type = "done" => events[c][i].text = TokenText(events[c])

\* C5 witness: a stream whose body holds an empty delta ran to Done with a Token.
C5_Witness ==
  \E c \in Calls :
    /\ pc[c] = "ok"
    /\ body[c] \in {BodyNoise, ClaudeBodyUtf8}
    /\ TokenCount(events[c]) >= 1

\* C6: Tokens come in the order of their source lines, one per line: the line
\* numbers of the Tokens increase strictly, and they are exactly the
\* delta-bearing lines among the lines the decoder has taken from the stream.
C6_TokensInLineOrder ==
  \A c \in Calls :
    Streamed(c) =>
      LET text == from_utf8_lossy(body[c])
          ev == events[c]
      IN /\ lines[c] = SourceLineCount(from_utf8_lossy(SubSeq(body[c], 1, pos[c])))
                         - Cardinality(NewlineAt(buf[c]))
         /\ \A i, j \in TokenIndices(ev) : i < j => ev[i].line < ev[j].line
         /\ {ev[i].line : i \in TokenIndices(ev)}
              = {k \in 1..lines[c] : IsDeltaLine(req[c].provider, SourceLine(text, k))}

\* C6 witness: a stream that emitted two Tokens and ran to Done.
C6_Witness ==
  \E c \in Calls : pc[c] = "ok" /\ TokenCount(events[c]) >= 2


\* C7: no missed wakeup: a Receiver made before a cancel_ai_request() call
\* observes it: while the call is inside its select!, changed() is ready from
\* the advance on, wherever the advance falls between the subscribe and the
\* first poll.
C7_NoMissedWakeup ==
  \A c \in Calls :
    (pc[c] \in InFlight /\ cancelsSince[c] > 0) => changed(c)

\* C7 witness: the advance fell between new_cancel_receiver() and the first
\* poll of the select!.
C7_Witness ==
  \E c \in Calls : pc[c] = "select" /\ cancelsSince[c] > 0 /\ changed(c)

\* C8 (as claimed): a call that was in flight when cancel_ai_request() ran
\* ends with the Cancelled outcome.
C8_InFlightCallEndsCancelled ==
  \A c \in Calls :
    (pc[c] \in Finished /\ cancelsSince[c] > 0) => pc[c] = "cancelled"

\* C8 (amended): one cancel_ai_request() makes changed() ready for every call
\* in flight at once, whatever their number and commands.
C8_CancelReachesEveryCall ==
  [][cancelCalls' # cancelCalls =>
       \A c \in Calls : pc[c] \in InFlight => cancel_rx'[c] # tx'.version]_vars

\* C8 witness: one cancel_ai_request() with two calls in flight, one of them
\* a stream, both ended Cancelled.
C8_Witness ==
  /\ cancelCalls = 1
  /\ \A c \in {1, 2} : pc[c] = "cancelled" /\ cancelsSince[c] = 1
  /\ \E c \in {1, 2} : req[c].cmd = "analyze_stream"
  /\ \E c \in {1, 2} : req[c].cmd # "analyze_stream"

C10_AdvancesCoalesce ==
  [][\A c \in Calls :
       (pc[c] \in InFlight /\ pc'[c] = "cancelled") =>
         /\ cancel_rx'[c] = tx'.version
         /\ tx'.value = tx'.version]_vars

\* C10 witness: a call Cancelled after two advances.
C10_Witness ==
  \E c \in Calls : pc[c] = "cancelled" /\ cancelsSince[c] >= 2

\* C11 (as claimed): every cancel_ai_request() call increments the stored
\* generation by exactly one, with or without live subscribers.
C11_EveryCancelIncrements ==
  [][cancelCalls' # cancelCalls => tx'.value = tx.value + 1]_vars

\* C11 (amended): the generation never decreases and is never reset; a
\* cancel_ai_request() call increments it by exactly one when a call is in
\* flight (a Receiver is alive) and leaves it as it is otherwise.
C11_GenerationMonotonic ==
  [][/\ tx'.value >= tx.value
     /\ cancelCalls' # cancelCalls =>
          tx'.value = (IF \E c \in Calls : pc[c] \in InFlight
                       THEN tx.value + 1 ELSE tx.value)]_vars

\* C11 witness: two cancel_ai_request() calls, one of them with no call in
\* flight, left the generation at 1.
C11_Witness == cancelCalls = 2 /\ tx.value = 1

\* The provider mandates a key: the four cloud commands, and analyze_stream
\* with one of the four cloud providers.
KeyRequired(r) ==
  \/ r.cmd \in Commands \ {"analyze_with_local"}
  \/ r.cmd = "analyze_stream" /\ r.provider \in {"openai", "claude", "deepseek", "openrouter"}

\* The label the key-required message of r names.
KeyLabel(r) ==
  IF r.cmd = "analyze_stream"
  THEN CASE r.provider = "openai" -> "OpenAI"
         [] r.provider = "claude" -> "Anthropic"
         [] r.provider = "deepseek" -> "DeepSeek"
         [] OTHER -> "OpenRouter"
  ELSE IF r.cmd = "analyze_with_claude" THEN "Anthropic" ELSE Label(r.cmd)

\* C12 (as claimed): a finished call to a key-mandating provider with an empty
\* api_key returned "<label> .. required", sent no HTTP request and emitted no
\* stream event; the local provider is never rejected for its key.
C12_EmptyKeyRejected ==
  \A c \in Calls :
    /\ (pc[c] \in Finished /\ KeyRequired(req[c]) /\ req[c].api_key = "") =>
         /\ result[c] = AuthError(KeyLabel(req[c]))
         /\ http[c] = 0
         /\ events[c] = <<>>
    /\ (pc[c] \in Finished /\ ~KeyRequired(req[c])) => result[c].kind # "auth"

\* C13: a call sends at most one HTTP request, whatever its outcome: none
\* before the first poll or after a preflight error, one otherwise, and a
\* finished call sends nothing more.
C13_AtMostOneRequest ==
  \A c \in Calls :
    /\ http[c] <= 1
    /\ pc[c] \in {"sent", "body", "errbody", "streaming"} => http[c] = 1
    /\ result[c].kind \in {"network", "http_status", "parse", "stream_read"} => http[c] = 1

\* C13 witness: a call that sent its one request and ended in a transport
\* failure.
C13_Witness ==
  \E c \in Calls :
    /\ http[c] = 1
    /\ pc[c] = "err"
    /\ result[c].kind = "network"

\* C14: in a non-streaming call the first of the exchange and the cancel
\* signal to resolve decides the outcome: the call holds Err("__CANCELLED__")
\* exactly when the cancel arm ran, and a call that has returned takes no
\* further step (result and request count stay as they are).
C14_FirstResolvedDecides ==
  [][\A c \in Calls :
       req[c].cmd \in Commands =>
         /\ result[c] = CancelledResult <=> pc[c] = "cancelled"
         /\ pc[c] \in Finished =>
              /\ pc'[c] = pc[c]
              /\ result'[c] = result[c]
              /\ http'[c] = http[c]
              /\ req'[c] = req[c]]_vars

\* C14 witness: a non-streaming call cancelled after its request was sent,
\* with two cancel_ai_request() calls made.
C14_Witness ==
  \E c \in Calls :
    /\ req[c].cmd \in Commands
    /\ pc[c] = "cancelled"
    /\ http[c] = 1
    /\ cancelCalls = 2

\* A response outside 2xx has been received by call c.
GotErrorStatus(c) == resp[c].status # 0 /\ ~is_success(resp[c].status)

\* C15 (as claimed): for every provider, a call that returned after a response
\* outside 2xx holds an error with the status code and the message preferred
\* in the order body.error.message, body.message, body.detail, raw body cut
\* to 300 characters (the order analyze_with_local applies).
C15_ErrorMessagePreference ==
  \A c \in Calls :
    (pc[c] = "err" /\ GotErrorStatus(c) /\ result[c].kind # "network") =>
      /\ result[c].kind = "http_status"
      /\ result[c].status = resp[c].status
      /\ result[c].message = LocalDetail(resp[c].text)

\* C16: a streaming call that received a response outside 2xx streams no
\* body and emits no Token and no Done; when it returns, it returns the
\* error that carries the status code.
C16_StreamErrorStatus ==
  \A c \in Calls :
    (req[c].cmd = "analyze_stream" /\ GotErrorStatus(c)) =>
      /\ \A i \in 1..Len(events[c]) : events[c][i].type \notin {"token", "done"}
      /\ body[c] = <<>> /\ full_text[c] = <<>>
      /\ pc[c] \in {"errbody", "err", "cancelled"}
      /\ pc[c] = "err" =>
           /\ result[c].kind = "http_status"
           /\ result[c].status = resp[c].status

\* C16 witness: a streaming call returned the error of a 429 response.
C16_Witness ==
  \E c \in Calls :
    /\ req[c].cmd = "analyze_stream"
    /\ pc[c] = "err"
    /\ result[c].kind = "http_status"
    /\ result[c].status = 429
    /\ events[c] = <<>>

\* What call c owns: its Receiver, its position, request and result, its
\* response and the locals of its decoder.
CallState(c) ==
  <<cancel_rx[c], pc[c], req[c], result[c], http[c], resp[c], body[c], pos[c], buf[c],
    full_text[c], events[c], lines[c], sawDone[c]>>

IsSkippedLine(provider, line) ==
  /\ ~(provider # "claude" /\ IsSentinelLine(line))
  /\ \/ ~HasPrefix(line, DataPrefix)
     \/ ~from_str(DropPrefix(line, DataPrefix)).ok

\* C18: a complete line without the "data: " prefix or with a payload that is
\* no JSON is skipped silently: no Token comes from it, the accumulator holds
\* Token text only, the scan goes on behind it (no complete line stays in the
\* buffer unless the sentinel stopped the scan) and every delta line taken
\* has its Token; only a read error ends a stream with an error.
C18_MalformedLineSkipped ==
  \A c \in Calls :
    Streamed(c) =>
      LET text == from_utf8_lossy(body[c])
          ev == events[c]
          p == req[c].provider
      IN /\ \A k \in 1..lines[c] :
              IsSkippedLine(p, SourceLine(text, k)) =>
                \A i \in TokenIndices(ev) : ev[i].line # k
         /\ \A k \in 1..lines[c] :
              IsDeltaLine(p, SourceLine(text, k)) =>
                \E i \in TokenIndices(ev) : ev[i].line = k
         /\ ~sawDone[c] => NewlineAt(buf[c]) = {}
         /\ full_text[c] = TokenText(ev)
         /\ pc[c] = "err" => result[c] = StreamReadErr

\* C18 witness: a stream with a comment line and a malformed payload before
\* its delta line (or between its delta lines) ran to Done with every delta.
C18_Witness ==
  \E c \in Calls :
    /\ pc[c] = "ok"
    /\ \/ body[c] = BodyNoise /\ TokenCount(events[c]) = 1
       \/ body[c] = ClaudeBodyHello /\ TokenCount(events[c]) = 2
    /\ \E k \in 1..lines[c] :
         IsSkippedLine(req[c].provider, SourceLine(from_utf8_lossy(body[c]), k))

\* C19: build_prompt with context_files None and with Some(empty list) both
\* return exactly the prompt.
C19_NoContextIsPrompt ==
  (ret # NoCall /\ arg.req.context_files \in {None, Some(<<>>)}) =>
    ret.value = arg.req.prompt

\* C19 witness: build_prompt returned for a non-empty prompt with Some(vec![]).
C19_Witness ==
  /\ ret # NoCall
  /\ arg.req.context_files = Some(<<>>)
  /\ Len(arg.req.prompt) = MaxText

\* Where chunk i starts in build_prompt's result.
RECURSIVE ChunkStart(_, _)
ChunkStart(r, i) ==
  IF i = 1 THEN Len(r.prompt) + Len(ContextHeader) + 1
  ELSE ChunkStart(r, i - 1) + Len(unwrap_or(r.context_files, <<>>)[i - 1]) + 1

\* "PROJECT CONTEXT (read-only)"
ContextMarker == SubSeq(ContextHeader, 9, 35)
Contains(s, t) == \E i \in 0..(Len(s) - Len(t)) : SubSeq(s, i + 1, i + Len(t)) = t

RequiredWord == <<114, 101, 113, 117, 105, 114, 101, 100>>

\* C21: validate_key(key, label) fails if and only if key is empty; the
\* message of a failure contains label and the word "required".
C21_FailsIffEmpty ==
  (ret # NoCall /\ arg.fn = "validate_key") =>
    /\ ret.value.ok <=> arg.key # <<>>
    /\ ~ret.value.ok =>
         /\ Contains(ret.value.err, arg.provider)
         /\ Contains(ret.value.err, RequiredWord)

\* C21 witness: validate_key("", "Claude") returned an error.
C21_Witness ==
  /\ ret # NoCall
  /\ arg.fn = "validate_key"
  /\ arg.key = <<>>
  /\ arg.provider = LabelClaude
  /\ ~ret.value.ok

\* C22 (as stated): a non-empty content is returned exactly as it is; an empty
\* or missing content with a non-empty reasoning gives the reasoning followed
\* by the annotation; both empty give ""; the Anthropic text has no fallback.
C22_ContentExactly ==
  /\ (ret # NoCall /\ arg.fn = "extract_content") =>
       LET content == unwrap_or(arg.msg.content, <<>>)
           reasoning == unwrap_or(arg.msg.reasoning, <<>>)
       IN /\ content # <<>> => ret.value = content
          /\ (content = <<>> /\ reasoning # <<>>) =>
               HasPrefix(ret.value, reasoning) /\ HasSuffix(ret.value, ReasoningOnlyNote)
          /\ (content = <<>> /\ reasoning = <<>>) => ret.value = <<>>
  /\ (ret # NoCall /\ arg.fn = "claude_text") =>
       ret.value = unwrap_or(arg.msg.text, <<>>)

\* C22 (amended): both fields are trimmed first. A content that is non-empty
\* after trimming is returned trimmed and the reasoning is ignored; otherwise
\* a reasoning that is non-empty after trimming is returned trimmed, followed
\* by the annotation; otherwise the result is "". The Anthropic text is the
\* text field as it is, "" when missing, whatever the reasoning field holds.
C22_TrimmedContentWins ==
  /\ (ret # NoCall /\ arg.fn = "extract_content") =>
       LET content == Trim(unwrap_or(arg.msg.content, <<>>))
           reasoning == Trim(unwrap_or(arg.msg.reasoning, <<>>))
       IN /\ content # <<>> => ret.value = content
          /\ (content = <<>> /\ reasoning # <<>>) =>
               /\ HasPrefix(ret.value, reasoning)
               /\ HasSuffix(ret.value, ReasoningOnlyNote)
               /\ Len(ret.value) = Len(reasoning) + Len(ReasoningOnlyNote)
          /\ (content = <<>> /\ reasoning = <<>>) => ret.value = <<>>
  /\ (ret # NoCall /\ arg.fn = "claude_text") =>
       ret.value = unwrap_or(arg.msg.text, <<>>)

\* C22 witness: extract_content fell back to the reasoning for a content of
\* one space.
C22_Witness ==
  /\ ret # NoCall
  /\ arg.fn = "extract_content"
  /\ arg.msg.content = Some(<<32>>)
  /\ arg.msg.reasoning = Some(<<97>>)
  /\ ret.value = <<97>> \o ReasoningOnlyNote

\* The user message of a payload: the last of its messages.
UserMessage(payload) == payload.messages[Len(payload.messages)]
OpenAiFamily == {"openai", "deepseek", "openrouter", "local"}

\* C23 (as claimed): for every OpenAI-compatible provider, non-streaming and
\* streaming, the user content is a plain string when the request has no
\* image and the two-element array [text, image_url] when it has one.
C23_ContentShape ==
  (ret # NoCall /\ arg.provider \in OpenAiFamily) =>
    LET content == UserMessage(ret.value).content
    IN IF arg.req.image_base64 = None
       THEN content.form = "string"
       ELSE /\ content.form = "array"
            /\ Len(content.parts) = 2
            /\ content.parts[1].type = "text"
            /\ content.parts[2].type = "image_url"
            /\ content.parts[2].url = DataUrlPrefix \o unwrap_or(arg.req.image_base64, <<>>)

\* C24 (as claimed): without a max_tokens in the request the payload carries
\* 2048 for openai, deepseek and openrouter, 4096 for local, and for Anthropic
\* 2048 non-streaming and 4096 streaming; a given value is sent unchanged.
C24_DefaultByProvider ==
  ret # NoCall =>
    ret.value.max_tokens =
      (IF arg.req.max_tokens # None THEN unwrap_or(arg.req.max_tokens, 0)
       ELSE IF arg.provider = "local" THEN 4096
       ELSE IF arg.provider = "claude"
            THEN (IF arg.fn = "analyze_stream" THEN 4096 ELSE 2048)
       ELSE 2048)

\* C24 (amended): every payload carries max_tokens; a given value is sent
\* unchanged; without one the streaming client sends 4096 for every provider,
\* and the non-streaming commands send 4096 for local and 2048 for openai,
\* deepseek, openrouter and Anthropic.
C24_DefaultByClient ==
  ret # NoCall =>
    ret.value.max_tokens =
      (IF arg.req.max_tokens # None THEN unwrap_or(arg.req.max_tokens, 0)
       ELSE IF arg.fn = "analyze_stream" THEN 4096
       ELSE IF arg.provider = "local" THEN 4096
       ELSE 2048)

\* C24 witness: the streaming client built an openai payload for a request
\* without max_tokens.
C24_Witness ==
  /\ ret # NoCall
  /\ arg.fn = "analyze_stream"
  /\ arg.provider = "openai"
  /\ arg.req.max_tokens = None
  /\ ret.value.max_tokens = 4096

CloudFamily == {"openai", "deepseek", "openrouter"}
\* The text of a user message, whichever form its content has.
UserText(payload) ==
  LET content == UserMessage(payload).content
  IN IF content.form = "string" THEN content.text
     ELSE (CHOOSE part \in {content.parts[i] : i \in 1..Len(content.parts)} :
             part.type = "text").text
HasSystemRole(payload) ==
  \E i \in 1..Len(payload.messages) : payload.messages[i].role = "system"
\* A system prompt that is absent or empty after trimming.
IsBlank(system_prompt) ==
  system_prompt = None \/ Trim(unwrap_or(system_prompt, <<>>)) = <<>>

\* C25 (as claimed): a system prompt that is present is the leading
\* system-role message of a cloud OpenAI-compatible payload; a local payload
\* has no system-role message and its user text is "{system}\n\n{prompt}" when
\* a system prompt is present, the prompt otherwise; an Anthropic payload has
\* no system-role message and a top-level system field exactly when the system
\* prompt is non-empty after trimming.
C25_SystemPlacement ==
  ret # NoCall =>
    LET r == arg.req
        sys == unwrap_or(r.system_prompt, <<>>)
        p == ret.value
    IN /\ arg.provider \in CloudFamily =>
            IF r.system_prompt # None
            THEN p.messages[1] = Message("system", StringContent(sys))
            ELSE ~HasSystemRole(p)
       /\ arg.provider = "local" =>
            /\ ~HasSystemRole(p)
            /\ UserText(p) = (IF r.system_prompt # None
                              THEN sys \o <<NL, NL>> \o build_prompt(r)
                              ELSE build_prompt(r))
       /\ arg.provider = "claude" =>
            /\ ~HasSystemRole(p)
            /\ p.system # None <=> Trim(sys) # <<>>

\* C25 (amended): a system prompt counts when it is non-empty after trimming.
\* A cloud OpenAI-compatible payload then has it, untrimmed, as its leading
\* system-role message, and otherwise has the user message only; a local
\* payload has the user message only, whose text is the trimmed system
\* prompt, "\n\n" and the prompt when the system prompt counts and the prompt
\* otherwise; an Anthropic payload has the user message only and the
\* top-level system field holds the trimmed system prompt exactly when it
\* counts.
C25_NonBlankSystemPlacement ==
  ret # NoCall =>
    LET r == arg.req
        sys == unwrap_or(r.system_prompt, <<>>)
        p == ret.value
    IN /\ arg.provider \in CloudFamily =>
            /\ ~IsBlank(r.system_prompt) =>
                 /\ Len(p.messages) = 2
                 /\ p.messages[1] = Message("system", StringContent(sys))
            /\ IsBlank(r.system_prompt) => Len(p.messages) = 1
            /\ UserMessage(p).role = "user"
            /\ UserText(p) = build_prompt(r)
            /\ p.system = None
       /\ arg.provider = "local" =>
            /\ Len(p.messages) = 1
            /\ UserMessage(p).role = "user"
            /\ UserText(p) = (IF IsBlank(r.system_prompt) THEN build_prompt(r)
                              ELSE Trim(sys) \o <<NL, NL>> \o build_prompt(r))
            /\ p.system = None
       /\ arg.provider = "claude" =>
            /\ Len(p.messages) = 1
            /\ UserMessage(p).role = "user"
            /\ UserText(p) = build_prompt(r)
            /\ p.system = (IF IsBlank(r.system_prompt) THEN None ELSE Some(Trim(sys)))

\* C25 witness: the streaming client built a local payload for a system
\* prompt with surrounding spaces.
C25_Witness ==
  /\ ret # NoCall
  /\ arg.fn = "analyze_stream"
  /\ arg.provider = "local"
  /\ arg.req.system_prompt = Some(<<32, 97, 32>>)
  /\ UserText(ret.value) = <<97, NL, NL>> \o build_prompt(arg.req)

\* Where old_text occurs in text: every start position, overlapping
\* occurrences included.
OccurrencesAt(text, old_text) ==
  {i \in 1..(Len(text) - Len(old_text) + 1) :
     SubSeq(text, i, i + Len(old_text) - 1) = old_text}

\* C26 (as claimed): patch_file succeeds exactly when the file exists and
\* old_text occurs in it exactly once, overlapping occurrences counted; on
\* success that occurrence is replaced by new_text, and on an error the file
\* is as it was.
C26_PatchIffUnique ==
  (ret # NoCall /\ arg.fn = "patch_file") =>
    LET text == unwrap_or(arg.file, <<>>)
        at == OccurrencesAt(text, arg.old_text)
    IN /\ ret.value.ok <=> (arg.file # None /\ Cardinality(at) = 1)
       /\ ret.value.ok =>
            \E i \in at :
              ret.file = Some(SubSeq(text, 1, i - 1) \o arg.new_text
                                \o SubSeq(text, i + Len(arg.old_text), Len(text)))
       /\ ~ret.value.ok => ret.file = arg.file

\* A directory name that is in IGNORED_DIRS or hidden (a leading '.').
IgnoredOrHidden(name) == name \in IGNORED_DIRS \/ (HasPrefix(name, <<46>>) /\ Len(name) > 1)
\* The path has a directory, below the root, that is ignored or hidden.
UnderIgnored(path) == \E i \in 1..(Len(path) - 1) : IgnoredOrHidden(path[i])
\* The regular files of a tree that lie in no ignored or hidden directory.
VisitedFiles(entries) ==
  {i \in 1..Len(entries) : entries[i].type = "file" /\ ~UnderIgnored(entries[i].path)}

\* C27 (as claimed): a returned file lies under no ignored or hidden
\* directory, has an allowed extension and at most MAX_FILE_SIZE_BYTES bytes;
\* at most MAX_TOTAL_FILES files are returned and total_files is their
\* number; every regular file in a non-ignored directory is either returned
\* or counted in skipped_files, never both.
C27_OnlyValidFiles ==
  (ret # NoCall /\ arg.fn = "index_directory" /\ ret.value.ok) =>
    LET files == ret.value.files
        visited == VisitedFiles(arg.entries)
        returned == {i \in visited :
                       \E k \in 1..Len(files) : files[k].path = arg.entries[i].path}
    IN /\ \A k \in 1..Len(files) :
            /\ ~UnderIgnored(files[k].path)
            /\ files[k].extension \in ALLOWED_EXTENSIONS
            /\ files[k].size_bytes <= MAX_FILE_SIZE_BYTES
            /\ \E i \in visited : arg.entries[i].path = files[k].path
            /\ \A j \in 1..Len(files) : files[j].path = files[k].path => j = k
       /\ Len(files) <= MAX_TOTAL_FILES
       /\ ret.value.total_files = Len(files)
       /\ ret.value.skipped_files = Cardinality(visited) - Cardinality(returned)

\* C28 (as claimed): in every reachable state GHOST_MODE = true implies
\* CLICK_THROUGH = true.
C28_GhostIsClickThrough == GHOST_MODE => CLICK_THROUGH

\* What follows the last newline of text: the unterminated final line.
Remainder(text) ==
  LET nl == NewlineAt(text)
      last == IF nl = {} THEN 0 ELSE CHOOSE i \in nl : \A j \in nl : j <= i
  IN SubSeq(text, last + 1, Len(text))

\* C29: only newline-terminated lines produce tokens. When the body ends with
\* a final data line that has no newline behind it, the stream ends with that
\* remainder still in the buffer: every Token comes from a terminated line,
\* there are as many Tokens as terminated delta lines, and the text of Done is
\* the Token text, without the delta of the remainder.
C29_UnterminatedLineDiscarded ==
  \A c \in Calls :
    (Streamed(c) /\ pc[c] = "ok" /\ Remainder(from_utf8_lossy(body[c])) # <<>>) =>
      LET text == from_utf8_lossy(body[c])
          ev == events[c]
          p == req[c].provider
          n == SourceLineCount(text)
      IN /\ buf[c] = Remainder(text)
         /\ lines[c] = n
         /\ \A i \in TokenIndices(ev) : ev[i].line \in 1..n
         /\ TokenCount(ev) = Cardinality({k \in 1..n : IsDeltaLine(p, SourceLine(text, k))})
         /\ ev[Len(ev)] = Done(TokenText(ev), DefaultModel(p))
         /\ TerminalCount(ev) = 1

\* C29 witness: a stream whose body ends with an unterminated data line that
\* carries the delta "b" ran to Done; the line is still in the buffer and
\* "b" is not in the text of Done.
C29_Witness ==
  \E c \in Calls :
    /\ pc[c] = "ok"
    /\ body[c] \in {BodyUtf8, ClaudeBodyUtf8}
    /\ IsDeltaLine(req[c].provider, Trim(buf[c]))
    /\ events[c][Len(events[c])].type = "done"
    /\ ~Contains(events[c][Len(events[c])].text, <<98>>)
    /\ TokenCount(events[c]) = 1

\* C30: the standalone build_prompt and the production build_prompt return
\* the same string for every prompt and every context_files value: what
\* either of them returned is what the other returns for the same request.
C30_SamePrompt ==
  ret # NoCall =>
    /\ ret.fn = "build_prompt" => ret.value = standalone_build_prompt(arg.req)
    /\ ret.fn = "standalone_build_prompt" => ret.value = build_prompt(arg.req)

====
